---- MODULE Spec2Model ----
(***************************************************************************)
(* Model of the NEAR escrow contracts of the cross-chain swap protocol:    *)
(* EscrowDst (packages/near-contracts/escrow-dst) and EscrowSrc            *)
(* (packages/near-contracts/escrow-src).                                   *)
(*                                                                         *)
(* One behaviour follows ONE escrow instance, of the side chosen at        *)
(* construction.  A call that panics is rolled back by the NEAR runtime:   *)
(* it leaves the contract state as it was and issues no promise; the model *)
(* records its panic message in `last`.                                    *)
(*                                                                         *)
(* Strings are sequences of one-character strings.  SHA-256 is modelled    *)
(* as the free (collision-free) constructor: the digest of m is the byte   *)
(* sequence <<HOpen>> \o m \o <<HClose>>, where HOpen and HClose are two   *)
(* symbols outside the byte range 0..255 that stand for the framing of a   *)
(* digest; their hex spellings are "[[" and "]]".                         *)
(***************************************************************************)
EXTENDS Integers, Sequences, FiniteSets, Bags, TLC

VARIABLES
    side,                 \* "dst" (EscrowDst) or "src" (EscrowSrc)
    immutables,           \* Immutables, written once by init
    factory,              \* the factory account given to init
    state,                \* EscrowState
    merkle_root,          \* Option<String>
    used_secret_indices,  \* Vector<u32>
    now,                  \* env::block_timestamp_ms()
    transfers,            \* every promise action issued so far, in order
    last,                 \* outcome of the most recent call of this block
    deployed_escrows,     \* EscrowFactory: LookupMap order hash -> account
    escrow_counter,       \* EscrowFactory: u64
    pending               \* EscrowFactory: bag of calls scheduled, not yet run

escrow_vars ==
    <<side, immutables, factory, state, merkle_root, used_secret_indices>>
factory_vars == <<deployed_escrows, escrow_counter, pending>>
vars == <<escrow_vars, now, transfers, last, factory_vars>>

\* Number of block times after deployed_at the model visits, one second apart.
MaxTick == 5
\* Number of successful rescue_funds calls on one escrow.
MaxRescues == 1

\* Block times are counted in units of TimeUnit milliseconds: the integers of
\* the checker are 32 bits wide, and the rescue delay of 2,592,000,000 ms does
\* not fit into them.  Ms(n) is a span of n milliseconds in that unit.
TimeUnit == 10
Ms(n) == n \div TimeUnit

(***************************************************************************)
(* Option<T>                                                               *)
(***************************************************************************)
None == <<>>
Some(x) == <<x>>
IsSome(o) == Len(o) = 1
IsNone(o) == Len(o) = 0

(***************************************************************************)
(* hex::decode / hex::encode and Sha256                                    *)
(***************************************************************************)
HOpen == 256
HClose == 257

HexDigits == <<"0","1","2","3","4","5","6","7","8","9","a","b","c","d","e","f">>

\* Value of one hex character (hex::decode takes both cases), -1 otherwise.
HexVal(c) ==
    CASE c = "0" -> 0 [] c = "1" -> 1 [] c = "2" -> 2 [] c = "3" -> 3
      [] c = "4" -> 4 [] c = "5" -> 5 [] c = "6" -> 6 [] c = "7" -> 7
      [] c = "8" -> 8 [] c = "9" -> 9
      [] c \in {"a", "A"} -> 10 [] c \in {"b", "B"} -> 11
      [] c \in {"c", "C"} -> 12 [] c \in {"d", "D"} -> 13
      [] c \in {"e", "E"} -> 14 [] c \in {"f", "F"} -> 15
      [] OTHER -> -1

\* Value of one pair of characters: a byte, a digest frame symbol, or -1.
HexPairVal(a, b) ==
    IF a = "[" /\ b = "[" THEN HOpen
    ELSE IF a = "]" /\ b = "]" THEN HClose
    ELSE IF HexVal(a) >= 0 /\ HexVal(b) >= 0 THEN 16 * HexVal(a) + HexVal(b)
    ELSE -1

\* hex::decode: None for an odd length or a character that is no hex digit.
HexDecode(s) ==
    IF Len(s) % 2 # 0 THEN None
    ELSE LET vals == [i \in 1..(Len(s) \div 2) |-> HexPairVal(s[2*i - 1], s[2*i])]
         IN  IF \E i \in 1..Len(vals) : vals[i] = -1 THEN None ELSE Some(vals)

\* hex::encode: two lower-case characters per byte.
HexEncode(bs) ==
    [i \in 1..(2 * Len(bs)) |->
        LET b == bs[(i + 1) \div 2] IN
        IF b = HOpen THEN "["
        ELSE IF b = HClose THEN "]"
        ELSE IF i % 2 = 1 THEN HexDigits[(b \div 16) + 1]
        ELSE HexDigits[(b % 16) + 1]]

\* Sha256::digest, collision-free.
Sha256(bs) == <<HOpen>> \o bs \o <<HClose>>

\* "merkle:" and str::starts_with
MerklePrefix == <<"m","e","r","k","l","e",":">>
StartsWith(s, p) == Len(s) >= Len(p) /\ SubSeq(s, 1, Len(p)) = p


(***************************************************************************)
(* Accounts, and the inputs the calls are tried with                       *)
(***************************************************************************)
Maker == "maker.near"
Taker == "taker.near"
Other == "other.near"
EscrowAccount == "escrow.near"      \* env::current_account_id()
FactoryAccount == "factory.near"
Callers == {Maker, Taker, Other}    \* env::predecessor_account_id()

\* The secrets of the four Merkle leaves, hex encoded; the first one is also
\* the secret of the single-fill hashlocks.
LeafSecrets == << <<"0","a">>, <<"0","b">>, <<"0","c">>, <<"0","d">> >>
NumLeaves == Len(LeafSecrets)
Leaf(i) == Sha256(HexDecode(LeafSecrets[i + 1])[1])
Node01 == Sha256(Leaf(0) \o Leaf(1))
Node23 == Sha256(Leaf(2) \o Leaf(3))
MerkleRootBytes == Sha256(Node01 \o Node23)
\* The sibling list of leaf i, bottom up.
MerklePath(i) ==
    << HexEncode(Leaf(IF i % 2 = 0 THEN i + 1 ELSE i - 1)),
       HexEncode(IF i < 2 THEN Node23 ELSE Node01) >>

SingleHashlock == HexEncode(Sha256(<<10>>))
\* The same digest spelled with an upper-case hex digit.
SingleHashlockUpper == <<"[","[","0","A","]","]">>
MalformedHashlock == <<"z","z">>
MerkleHashlock == MerklePrefix \o HexEncode(MerkleRootBytes)
HashlockInputs ==
    {SingleHashlock, SingleHashlockUpper, MalformedHashlock, MerkleHashlock}

\* A proof with its second sibling replaced by another digest.
TamperedPath(i) == << MerklePath(i)[1], HexEncode(Leaf(i)) >>

\* The secrets and proofs the calls are tried with.  A single-fill escrow
\* never reads the proof, so one proof stands for all there.
MerkleSecretInputs ==
    { <<"0","a">>, <<"0","A">>, <<"0","b">>, <<"0","c">>, <<"0","d">>,
      <<"0","e">>, <<"z","z">> }
SingleSecretInputs ==
    { <<"0","a">>, <<"0","A">>, <<"0","b">>, <<>>, <<"0">>, <<"z","z">> }
SecretInputs ==
    IF IsSome(merkle_root) THEN MerkleSecretInputs ELSE SingleSecretInputs

MerkleProofInputs ==
    {None}
    \cup { Some([proof |-> MerklePath(i), index |-> i]) :
             i \in 0..(NumLeaves - 1) }
    \cup { Some([proof |-> MerklePath(0), index |-> j]) : j \in {1, NumLeaves} }
    \cup { Some([proof |-> TamperedPath(0), index |-> 0]),
           Some([proof |-> << <<"z","z">> >>, index |-> 0]) }
SingleProofInputs == {None, Some([proof |-> MerklePath(0), index |-> 0])}
ProofInputs ==
    IF IsSome(merkle_root) THEN MerkleProofInputs ELSE SingleProofInputs

TokenInputs == {"near", "usdt.token"}

\* Stage offsets in seconds: an ordered schedule, a schedule with equal and
\* zero offsets, and one whose cancellation offsets are out of order.
TimelockInputs ==
    { [deployed_at |-> Ms(2000),
       src_withdrawal |-> 1, src_public_withdrawal |-> 2,
       src_cancellation |-> 3, src_public_cancellation |-> 4,
       dst_withdrawal |-> 1, dst_public_withdrawal |-> 2, dst_cancellation |-> 3],
      [deployed_at |-> Ms(2000),
       src_withdrawal |-> 0, src_public_withdrawal |-> 1,
       src_cancellation |-> 1, src_public_cancellation |-> 3,
       dst_withdrawal |-> 0, dst_public_withdrawal |-> 2, dst_cancellation |-> 2],
      [deployed_at |-> Ms(2000),
       src_withdrawal |-> 1, src_public_withdrawal |-> 2,
       src_cancellation |-> 4, src_public_cancellation |-> 3,
       dst_withdrawal |-> 1, dst_public_withdrawal |-> 3, dst_cancellation |-> 2] }

OrderedTimelocks ==
    CHOOSE tl \in TimelockInputs :
        tl.src_withdrawal = 1 /\ tl.src_cancellation < tl.src_public_cancellation

\* Every token and schedule with the two well-formed lower-case hashlocks; the
\* other two hashlocks with the native token and the ordered schedule.
ImmutablesInputs ==
    { [order_hash |-> "0xorder", hashlock |-> h, maker |-> Maker, taker |-> Taker,
       token |-> t, amount |-> 1000, safety_deposit |-> 50, timelocks |-> tl] :
        h \in {SingleHashlock, MerkleHashlock}, t \in TokenInputs,
        tl \in TimelockInputs }
    \cup
    { [order_hash |-> "0xorder", hashlock |-> h, maker |-> Maker, taker |-> Taker,
       token |-> "near", amount |-> 1000, safety_deposit |-> 50,
       timelocks |-> OrderedTimelocks] :
        h \in {SingleHashlockUpper, MalformedHashlock} }

\* The block times the model visits: whole seconds from deployed_at on.
LastTime == immutables.timelocks.deployed_at + Ms(1000) * MaxTick
\* ... and the two block times around the end of the rescue delay.
RescueTimes ==
    { immutables.timelocks.deployed_at + (30 * 24 * 60 * 60 * Ms(1000)) - 1,
      immutables.timelocks.deployed_at + (30 * 24 * 60 * 60 * Ms(1000)) }
\* The (token, amount) pairs rescue_funds is tried with.
RescueInputs == { <<"near", 7>>, <<"usdt.token", 2000>> }

(***************************************************************************)
(* Helpers shared by EscrowDst and EscrowSrc (the two files carry the same *)
(* code for them)                                                          *)
(***************************************************************************)
NATIVE == "near"

\* The outcome of a call: a panic rolls the call back.
Fail(msg) ==
    [ok |-> FALSE, err |-> msg, state |-> state,
     used |-> used_secret_indices, out |-> <<>>]
Done(st, used, out) ==
    [ok |-> TRUE, err |-> "", state |-> st, used |-> used, out |-> out]

\* hash_secret: None stands for the panic "Invalid secret format".
hash_secret(secret) ==
    LET secret_bytes == HexDecode(secret) IN
    IF IsNone(secret_bytes) THEN None ELSE Some(Sha256(secret_bytes[1]))

\* The loop of verify_merkle_proof: None stands for the panic
\* "Invalid proof format", Some(h) is the hash after the last sibling.
RECURSIVE merkle_fold(_, _, _)
merkle_fold(hash, proof, current_index) ==
    IF proof = <<>> THEN Some(hash)
    ELSE LET sibling == HexDecode(Head(proof)) IN
         IF IsNone(sibling) THEN None
         ELSE merkle_fold(
                Sha256(IF current_index % 2 = 0
                       THEN hash \o sibling[1]
                       ELSE sibling[1] \o hash),
                Tail(proof), current_index \div 2)

\* verify_merkle_proof: None (panic), Some(TRUE) or Some(FALSE).
verify_merkle_proof(leaf, proof, index, root) ==
    LET hash == merkle_fold(leaf, proof, index) IN
    IF IsNone(hash) THEN None ELSE Some(HexEncode(hash[1]) = root)
\* verify_secret comparing the hex spelling of the digest with the hashlock
\* string instead of comparing the decoded bytes.
verify_secret_StringCompare(secret, merkle_proof) ==
    IF IsSome(merkle_root) THEN
        IF IsNone(merkle_proof)
        THEN [ok |-> FALSE, err |-> "Merkle proof required for partial fills",
              used |-> used_secret_indices]
        ELSE LET proof == merkle_proof[1] IN
        IF \E k \in 1..Len(used_secret_indices) :
              used_secret_indices[k] = proof.index
        THEN [ok |-> FALSE, err |-> "Secret index already used",
              used |-> used_secret_indices]
        ELSE LET secret_hash == hash_secret(secret) IN
        IF IsNone(secret_hash)
        THEN [ok |-> FALSE, err |-> "Invalid secret format",
              used |-> used_secret_indices]
        ELSE LET v == verify_merkle_proof(secret_hash[1], proof.proof,
                                          proof.index, merkle_root[1]) IN
        IF IsNone(v)
        THEN [ok |-> FALSE, err |-> "Invalid proof format",
              used |-> used_secret_indices]
        ELSE IF ~v[1]
        THEN [ok |-> FALSE, err |-> "Invalid Merkle proof",
              used |-> used_secret_indices]
        ELSE [ok |-> TRUE, err |-> "",
              used |-> Append(used_secret_indices, proof.index)]
    ELSE
        LET secret_hash == hash_secret(secret) IN
        IF IsNone(secret_hash)
        THEN [ok |-> FALSE, err |-> "Invalid secret format",
              used |-> used_secret_indices]
        ELSE IF IsNone(HexDecode(immutables.hashlock))
        THEN [ok |-> FALSE, err |-> "Invalid hashlock format",
              used |-> used_secret_indices]
        ELSE IF HexEncode(secret_hash[1]) # immutables.hashlock
        THEN [ok |-> FALSE, err |-> "Invalid secret",
              used |-> used_secret_indices]
        ELSE [ok |-> TRUE, err |-> "", used |-> used_secret_indices]
\* verify_secret recording index 0 for the secret of a single-fill escrow.
verify_secret_RecordsSingleFill(secret, merkle_proof) ==
    IF IsSome(merkle_root) THEN
        IF IsNone(merkle_proof)
        THEN [ok |-> FALSE, err |-> "Merkle proof required for partial fills",
              used |-> used_secret_indices]
        ELSE LET proof == merkle_proof[1] IN
        IF \E k \in 1..Len(used_secret_indices) :
              used_secret_indices[k] = proof.index
        THEN [ok |-> FALSE, err |-> "Secret index already used",
              used |-> used_secret_indices]
        ELSE LET secret_hash == hash_secret(secret) IN
        IF IsNone(secret_hash)
        THEN [ok |-> FALSE, err |-> "Invalid secret format",
              used |-> used_secret_indices]
        ELSE LET v == verify_merkle_proof(secret_hash[1], proof.proof,
                                          proof.index, merkle_root[1]) IN
        IF IsNone(v)
        THEN [ok |-> FALSE, err |-> "Invalid proof format",
              used |-> used_secret_indices]
        ELSE IF ~v[1]
        THEN [ok |-> FALSE, err |-> "Invalid Merkle proof",
              used |-> used_secret_indices]
        ELSE [ok |-> TRUE, err |-> "",
              used |-> Append(used_secret_indices, proof.index)]
    ELSE
        LET secret_hash == hash_secret(secret) IN
        IF IsNone(secret_hash)
        THEN [ok |-> FALSE, err |-> "Invalid secret format",
              used |-> used_secret_indices]
        ELSE LET expected_hash == HexDecode(immutables.hashlock) IN
        IF IsNone(expected_hash)
        THEN [ok |-> FALSE, err |-> "Invalid hashlock format",
              used |-> used_secret_indices]
        ELSE IF secret_hash[1] # expected_hash[1]
        THEN [ok |-> FALSE, err |-> "Invalid secret",
              used |-> used_secret_indices]
        ELSE [ok |-> TRUE, err |-> "",
              used |-> Append(used_secret_indices, 0)]

\* verify_secret: [ok, err, used], used being used_secret_indices afterwards.
verify_secret(secret, merkle_proof) ==
    IF IsSome(merkle_root) THEN
        IF IsNone(merkle_proof)
        THEN [ok |-> FALSE, err |-> "Merkle proof required for partial fills",
              used |-> used_secret_indices]
        ELSE LET proof == merkle_proof[1] IN
        IF \E k \in 1..Len(used_secret_indices) :
              used_secret_indices[k] = proof.index
        THEN [ok |-> FALSE, err |-> "Secret index already used",
              used |-> used_secret_indices]
        ELSE LET secret_hash == hash_secret(secret) IN
        IF IsNone(secret_hash)
        THEN [ok |-> FALSE, err |-> "Invalid secret format",
              used |-> used_secret_indices]
        ELSE LET v == verify_merkle_proof(secret_hash[1], proof.proof,
                                          proof.index, merkle_root[1]) IN
        IF IsNone(v)
        THEN [ok |-> FALSE, err |-> "Invalid proof format",
              used |-> used_secret_indices]
        ELSE IF ~v[1]
        THEN [ok |-> FALSE, err |-> "Invalid Merkle proof",
              used |-> used_secret_indices]
        ELSE [ok |-> TRUE, err |-> "",
              used |-> Append(used_secret_indices, proof.index)]
    ELSE
        LET secret_hash == hash_secret(secret) IN
        IF IsNone(secret_hash)
        THEN [ok |-> FALSE, err |-> "Invalid secret format",
              used |-> used_secret_indices]
        ELSE LET expected_hash == HexDecode(immutables.hashlock) IN
        IF IsNone(expected_hash)
        THEN [ok |-> FALSE, err |-> "Invalid hashlock format",
              used |-> used_secret_indices]
        ELSE IF secret_hash[1] # expected_hash[1]
        THEN [ok |-> FALSE, err |-> "Invalid secret",
              used |-> used_secret_indices]
        ELSE [ok |-> TRUE, err |-> "", used |-> used_secret_indices]

\* The promise actions.  A NEP-141 transfer is a call of the token contract.
transfer_funds_to_maker ==
    IF immutables.token = NATIVE
    THEN [kind |-> "transfer", token |-> NATIVE, to |-> immutables.maker,
          amount |-> immutables.amount]
    ELSE [kind |-> "ft_transfer", token |-> immutables.token,
          to |-> immutables.maker, amount |-> immutables.amount]
transfer_funds_to_taker ==
    IF immutables.token = NATIVE
    THEN [kind |-> "transfer", token |-> NATIVE, to |-> immutables.taker,
          amount |-> immutables.amount]
    ELSE [kind |-> "ft_transfer", token |-> immutables.token,
          to |-> immutables.taker, amount |-> immutables.amount]
transfer_safety_deposit(caller) ==
    [kind |-> "transfer", token |-> NATIVE, to |-> caller,
     amount |-> immutables.safety_deposit]

\* The Merkle root init extracts from the hashlock.
extract_merkle_root(hashlock) ==
    IF StartsWith(hashlock, MerklePrefix)
    THEN Some(SubSeq(hashlock, Len(MerklePrefix) + 1, Len(hashlock)))
    ELSE None

(***************************************************************************)
(* EscrowDst                                                               *)
(***************************************************************************)
Dst_get_timelock_timestamp(stage) ==
    LET delay_seconds ==
          CASE stage = "DstWithdrawal" -> immutables.timelocks.dst_withdrawal
            [] stage = "DstPublicWithdrawal" ->
                   immutables.timelocks.dst_public_withdrawal
            [] stage = "DstCancellation" -> immutables.timelocks.dst_cancellation
    IN  immutables.timelocks.deployed_at + delay_seconds * Ms(1000)

\* The assertion of EscrowDst::init: the message it panics with, "" if none.
Dst_init_guard(predecessor, fac) ==
    IF predecessor # fac THEN "Only factory can initialize escrow"
    ELSE ""

\* EscrowDst::init, called by the factory account it names.
Dst_init(imm, fac) ==
    [immutables |-> imm, factory |-> fac,
     state |-> [is_funded |-> FALSE, is_withdrawn |-> FALSE,
                is_cancelled |-> FALSE, revealed_secret |-> None,
                withdrawn_at |-> None, cancelled_at |-> None],
     merkle_root |-> extract_merkle_root(imm.hashlock),
     used_secret_indices |-> <<>>]
\* Dst_deposit_funds_guard without the check of is_funded.
Dst_deposit_funds_guard_NoFundedCheck(caller) ==
    IF caller # immutables.taker THEN "Only taker can call this method"
    ELSE ""

\* The assertions of deposit_funds: the first message that panics, "" if none.
Dst_deposit_funds_guard(caller) ==
    IF caller # immutables.taker THEN "Only taker can call this method"
    ELSE IF state.is_funded THEN "Already funded"
    ELSE ""

Dst_deposit_funds(caller) ==
    LET g == Dst_deposit_funds_guard(caller) IN
    IF g # "" THEN Fail(g)
    ELSE IF immutables.token = NATIVE
    THEN Done([state EXCEPT !.is_funded = TRUE], used_secret_indices, <<>>)
    ELSE Done([state EXCEPT !.is_funded = TRUE], used_secret_indices,
              << [kind |-> "ft_transfer_from", token |-> immutables.token,
                  to |-> EscrowAccount, amount |-> immutables.amount] >>)
\* Dst_withdraw_guard with the cancellation start still inside the window.
Dst_withdraw_guard_InclusiveEnd(caller) ==
    LET current_time == now
        withdrawal_start == Dst_get_timelock_timestamp("DstWithdrawal")
        cancellation_start == Dst_get_timelock_timestamp("DstCancellation")
    IN
    IF caller # immutables.taker THEN "Only taker can call this method"
    ELSE IF ~state.is_funded THEN "Escrow not funded"
    ELSE IF state.is_withdrawn THEN "Already withdrawn"
    ELSE IF state.is_cancelled THEN "Already cancelled"
    ELSE IF ~(current_time >= withdrawal_start) THEN "Finality lock not expired"
    ELSE IF ~(current_time <= cancellation_start)
    THEN "Cancellation period started"
    ELSE ""

\* The role, state and time assertions of withdraw, in the order of the code:
\* the first message that panics, "" if none.
Dst_withdraw_guard(caller) ==
    LET current_time == now
        withdrawal_start == Dst_get_timelock_timestamp("DstWithdrawal")
        cancellation_start == Dst_get_timelock_timestamp("DstCancellation")
    IN
    IF caller # immutables.taker THEN "Only taker can call this method"
    ELSE IF ~state.is_funded THEN "Escrow not funded"
    ELSE IF state.is_withdrawn THEN "Already withdrawn"
    ELSE IF state.is_cancelled THEN "Already cancelled"
    ELSE IF ~(current_time >= withdrawal_start) THEN "Finality lock not expired"
    ELSE IF ~(current_time < cancellation_start)
    THEN "Cancellation period started"
    ELSE ""

Dst_withdraw(caller, secret, merkle_proof) ==
    LET g == Dst_withdraw_guard(caller) IN
    IF g # "" THEN Fail(g)
    ELSE
    LET v == verify_secret(secret, merkle_proof) IN
    IF ~v.ok THEN Fail(v.err)
    ELSE Done([state EXCEPT !.is_withdrawn = TRUE,
                            !.revealed_secret = Some(secret),
                            !.withdrawn_at = Some(now)],
              v.used,
              <<transfer_funds_to_maker, transfer_safety_deposit(caller)>>)

Dst_public_withdraw_guard(caller) ==
    LET current_time == now
        public_withdrawal_start ==
            Dst_get_timelock_timestamp("DstPublicWithdrawal")
        cancellation_start == Dst_get_timelock_timestamp("DstCancellation")
    IN
    IF ~state.is_funded THEN "Escrow not funded"
    ELSE IF state.is_withdrawn THEN "Already withdrawn"
    ELSE IF state.is_cancelled THEN "Already cancelled"
    ELSE IF ~(current_time >= public_withdrawal_start)
    THEN "Public withdrawal period not started"
    ELSE IF ~(current_time < cancellation_start)
    THEN "Cancellation period started"
    ELSE ""
\* Dst_public_withdraw leaving revealed_secret unset.
Dst_public_withdraw_NoReveal(caller, secret, merkle_proof) ==
    LET g == Dst_public_withdraw_guard(caller) IN
    IF g # "" THEN Fail(g)
    ELSE
    LET v == verify_secret(secret, merkle_proof) IN
    IF ~v.ok THEN Fail(v.err)
    ELSE Done([state EXCEPT !.is_withdrawn = TRUE,
                            !.withdrawn_at = Some(now)],
              v.used,
              <<transfer_funds_to_maker, transfer_safety_deposit(caller)>>)

Dst_public_withdraw(caller, secret, merkle_proof) ==
    LET g == Dst_public_withdraw_guard(caller) IN
    IF g # "" THEN Fail(g)
    ELSE
    LET v == verify_secret(secret, merkle_proof) IN
    IF ~v.ok THEN Fail(v.err)
    ELSE Done([state EXCEPT !.is_withdrawn = TRUE,
                            !.revealed_secret = Some(secret),
                            !.withdrawn_at = Some(now)],
              v.used,
              <<transfer_funds_to_maker, transfer_safety_deposit(caller)>>)
\* Dst_cancel_guard without assert_not_withdrawn.
Dst_cancel_guard_NoWithdrawnCheck(caller) ==
    LET current_time == now
        cancellation_start ==
            immutables.timelocks.deployed_at
              + immutables.timelocks.dst_cancellation * Ms(1000)
    IN
    IF caller # immutables.taker THEN "Only taker can call this method"
    ELSE IF ~state.is_funded THEN "Escrow not funded"
    ELSE IF state.is_cancelled THEN "Already cancelled"
    ELSE IF ~(current_time >= cancellation_start)
    THEN "Cancellation period not started"
    ELSE ""
\* Dst_cancel_guard without the check of is_cancelled.
Dst_cancel_guard_NoCancelledCheck(caller) ==
    LET current_time == now
        cancellation_start == Dst_get_timelock_timestamp("DstCancellation")
    IN
    IF caller # immutables.taker THEN "Only taker can call this method"
    ELSE IF ~state.is_funded THEN "Escrow not funded"
    ELSE IF state.is_withdrawn THEN "Already withdrawn"
    ELSE IF ~(current_time >= cancellation_start)
    THEN "Cancellation period not started"
    ELSE ""

Dst_cancel_guard(caller) ==
    LET current_time == now
        cancellation_start == Dst_get_timelock_timestamp("DstCancellation")
    IN
    IF caller # immutables.taker THEN "Only taker can call this method"
    ELSE IF ~state.is_funded THEN "Escrow not funded"
    ELSE IF state.is_withdrawn THEN "Already withdrawn"
    ELSE IF state.is_cancelled THEN "Already cancelled"
    ELSE IF ~(current_time >= cancellation_start)
    THEN "Cancellation period not started"
    ELSE ""
\* Dst_cancel returning the principal to the maker.
Dst_cancel_PaysMaker(caller) ==
    LET g == Dst_cancel_guard(caller) IN
    IF g # "" THEN Fail(g)
    ELSE Done([state EXCEPT !.is_cancelled = TRUE,
                            !.cancelled_at = Some(now)],
              used_secret_indices,
              <<transfer_funds_to_maker, transfer_safety_deposit(caller)>>)

Dst_cancel(caller) ==
    LET g == Dst_cancel_guard(caller) IN
    IF g # "" THEN Fail(g)
    ELSE Done([state EXCEPT !.is_cancelled = TRUE,
                            !.cancelled_at = Some(now)],
              used_secret_indices,
              <<transfer_funds_to_taker, transfer_safety_deposit(caller)>>)
\* Dst_rescue_funds opening one block time after the end of the rescue delay.
Dst_rescue_funds_StrictDelay(caller, token, amount) ==
    LET current_time == now
        rescue_start ==
            immutables.timelocks.deployed_at + (30 * 24 * 60 * 60 * Ms(1000))
    IN
    IF caller # immutables.taker THEN Fail("Only taker can call this method")
    ELSE IF ~(current_time > rescue_start) THEN Fail("Rescue delay not expired")
    ELSE Done(state, used_secret_indices,
              << [kind |-> IF token = NATIVE THEN "transfer" ELSE "ft_transfer",
                  token |-> token, to |-> immutables.taker,
                  amount |-> amount] >>)

\* rescue_funds: taker only, 30 days after deployed_at.
Dst_rescue_funds(caller, token, amount) ==
    LET current_time == now
        rescue_start ==
            immutables.timelocks.deployed_at + (30 * 24 * 60 * 60 * Ms(1000))
    IN
    IF caller # immutables.taker THEN Fail("Only taker can call this method")
    ELSE IF ~(current_time >= rescue_start) THEN Fail("Rescue delay not expired")
    ELSE IF token = NATIVE
    THEN Done(state, used_secret_indices,
              << [kind |-> "transfer", token |-> NATIVE,
                  to |-> immutables.taker, amount |-> amount] >>)
    ELSE Done(state, used_secret_indices,
              << [kind |-> "ft_transfer", token |-> token,
                  to |-> immutables.taker, amount |-> amount] >>)

Dst_get_current_phase ==
    LET current_time == now
        withdrawal_start == Dst_get_timelock_timestamp("DstWithdrawal")
        public_withdrawal_start ==
            Dst_get_timelock_timestamp("DstPublicWithdrawal")
        cancellation_start == Dst_get_timelock_timestamp("DstCancellation")
    IN
    IF current_time < withdrawal_start THEN "B1_FINALITY_LOCK"
    ELSE IF current_time < public_withdrawal_start THEN "B2_RESOLVER_EXCLUSIVE"
    ELSE IF current_time < cancellation_start THEN "B3_PUBLIC_WITHDRAWAL"
    ELSE "B4_CANCELLATION"

\* u64::saturating_sub
saturating_sub(a, b) == IF a >= b THEN a - b ELSE 0

\* Dst_get_time_remaining counting, in B2, up to the cancellation start.
Dst_get_time_remaining_SkipsStage ==
    LET current_time == now
        current_phase == Dst_get_current_phase
    IN
    CASE current_phase = "B1_FINALITY_LOCK" ->
            Some(saturating_sub(Dst_get_timelock_timestamp("DstWithdrawal"),
                                current_time))
      [] current_phase = "B2_RESOLVER_EXCLUSIVE" ->
            Some(saturating_sub(Dst_get_timelock_timestamp("DstCancellation"),
                                current_time))
      [] current_phase = "B3_PUBLIC_WITHDRAWAL" ->
            Some(saturating_sub(Dst_get_timelock_timestamp("DstCancellation"),
                                current_time))
      [] OTHER -> None

Dst_get_time_remaining ==
    LET current_time == now
        current_phase == Dst_get_current_phase
    IN
    CASE current_phase = "B1_FINALITY_LOCK" ->
            Some(saturating_sub(Dst_get_timelock_timestamp("DstWithdrawal"),
                                current_time))
      [] current_phase = "B2_RESOLVER_EXCLUSIVE" ->
            Some(saturating_sub(
                    Dst_get_timelock_timestamp("DstPublicWithdrawal"),
                    current_time))
      [] current_phase = "B3_PUBLIC_WITHDRAWAL" ->
            Some(saturating_sub(Dst_get_timelock_timestamp("DstCancellation"),
                                current_time))
      [] OTHER -> None

(***************************************************************************)
(* EscrowSrc                                                               *)
(***************************************************************************)
Src_get_timelock_timestamp(stage) ==
    LET delay_seconds ==
          CASE stage = "SrcWithdrawal" -> immutables.timelocks.src_withdrawal
            [] stage = "SrcPublicWithdrawal" ->
                   immutables.timelocks.src_public_withdrawal
            [] stage = "SrcCancellation" -> immutables.timelocks.src_cancellation
            [] stage = "SrcPublicCancellation" ->
                   immutables.timelocks.src_public_cancellation
    IN  immutables.timelocks.deployed_at + delay_seconds * Ms(1000)

\* Src_init_guard accepting whatever deposit is attached.
Src_init_guard_AnyDeposit(predecessor, imm, fac, attached_deposit) ==
    IF predecessor # fac THEN "Only factory can initialize escrow"
    ELSE ""

\* The assertions of EscrowSrc::init: the first message that panics, "" if
\* none.
Src_init_guard(predecessor, imm, fac, attached_deposit) ==
    LET expected_amount ==
            IF imm.token = "near" THEN imm.amount + imm.safety_deposit
            ELSE imm.safety_deposit
    IN
    IF predecessor # fac THEN "Only factory can initialize escrow"
    ELSE IF attached_deposit # expected_amount THEN "Incorrect deposit amount"
    ELSE ""

\* EscrowSrc::init, called by the factory account it names with the expected
\* deposit attached.
Src_init(imm, fac) ==
    [immutables |-> imm, factory |-> fac,
     state |-> [is_withdrawn |-> FALSE, is_cancelled |-> FALSE,
                revealed_secret |-> None,
                withdrawn_at |-> None, cancelled_at |-> None],
     merkle_root |-> extract_merkle_root(imm.hashlock),
     used_secret_indices |-> <<>>]

Src_withdraw_guard(caller) ==
    LET current_time == now
        withdrawal_start == Src_get_timelock_timestamp("SrcWithdrawal")
        public_cancellation_start ==
            Src_get_timelock_timestamp("SrcPublicCancellation")
    IN
    IF caller # immutables.taker THEN "Only taker can call this method"
    ELSE IF state.is_withdrawn THEN "Already withdrawn"
    ELSE IF state.is_cancelled THEN "Already cancelled"
    ELSE IF ~(current_time >= withdrawal_start) THEN "Finality lock not expired"
    ELSE IF ~(current_time < public_cancellation_start)
    THEN "Public cancellation period started"
    ELSE ""

Src_withdraw(caller, secret, merkle_proof) ==
    LET g == Src_withdraw_guard(caller) IN
    IF g # "" THEN Fail(g)
    ELSE
    LET v == verify_secret(secret, merkle_proof) IN
    IF ~v.ok THEN Fail(v.err)
    ELSE Done([state EXCEPT !.is_withdrawn = TRUE,
                            !.revealed_secret = Some(secret),
                            !.withdrawn_at = Some(now)],
              v.used,
              <<transfer_funds_to_taker, transfer_safety_deposit(caller)>>)
\* Src_public_withdraw_guard closing the window at the public cancellation
\* start, as withdraw does.
Src_public_withdraw_guard_LateEnd(caller) ==
    LET current_time == now
        public_withdrawal_start ==
            Src_get_timelock_timestamp("SrcPublicWithdrawal")
        cancellation_start ==
            Src_get_timelock_timestamp("SrcPublicCancellation")
    IN
    IF state.is_withdrawn THEN "Already withdrawn"
    ELSE IF state.is_cancelled THEN "Already cancelled"
    ELSE IF ~(current_time >= public_withdrawal_start)
    THEN "Public withdrawal not started"
    ELSE IF ~(current_time < cancellation_start)
    THEN "Cancellation period started"
    ELSE ""

Src_public_withdraw_guard(caller) ==
    LET current_time == now
        public_withdrawal_start ==
            Src_get_timelock_timestamp("SrcPublicWithdrawal")
        cancellation_start == Src_get_timelock_timestamp("SrcCancellation")
    IN
    IF state.is_withdrawn THEN "Already withdrawn"
    ELSE IF state.is_cancelled THEN "Already cancelled"
    ELSE IF ~(current_time >= public_withdrawal_start)
    THEN "Public withdrawal not started"
    ELSE IF ~(current_time < cancellation_start)
    THEN "Cancellation period started"
    ELSE ""

Src_public_withdraw(caller, secret, merkle_proof) ==
    LET g == Src_public_withdraw_guard(caller) IN
    IF g # "" THEN Fail(g)
    ELSE
    LET v == verify_secret(secret, merkle_proof) IN
    IF ~v.ok THEN Fail(v.err)
    ELSE Done([state EXCEPT !.is_withdrawn = TRUE,
                            !.revealed_secret = Some(secret),
                            !.withdrawn_at = Some(now)],
              v.used,
              <<transfer_funds_to_taker, transfer_safety_deposit(caller)>>)
\* Src_cancel_guard without the maker check of the private cancellation stage.
Src_cancel_guard_NoMakerCheck(caller) ==
    LET current_time == now
        cancellation_start == Src_get_timelock_timestamp("SrcCancellation")
        public_cancellation_start ==
            Src_get_timelock_timestamp("SrcPublicCancellation")
    IN
    IF state.is_withdrawn THEN "Already withdrawn"
    ELSE IF state.is_cancelled THEN "Already cancelled"
    ELSE IF current_time < public_cancellation_start
    THEN IF ~(current_time >= cancellation_start)
         THEN "Private cancellation not started"
         ELSE ""
    ELSE IF ~(current_time >= public_cancellation_start)
         THEN "Public cancellation not started"
         ELSE ""

Src_cancel_guard(caller) ==
    LET current_time == now
        cancellation_start == Src_get_timelock_timestamp("SrcCancellation")
        public_cancellation_start ==
            Src_get_timelock_timestamp("SrcPublicCancellation")
    IN
    IF state.is_withdrawn THEN "Already withdrawn"
    ELSE IF state.is_cancelled THEN "Already cancelled"
    ELSE IF current_time < public_cancellation_start
    THEN \* A3 phase - only maker can cancel
         IF caller # immutables.maker
         THEN "Only maker can cancel during private cancellation"
         ELSE IF ~(current_time >= cancellation_start)
         THEN "Private cancellation not started"
         ELSE ""
    ELSE \* A4 phase - anyone can cancel
         IF ~(current_time >= public_cancellation_start)
         THEN "Public cancellation not started"
         ELSE ""

Src_cancel(caller) ==
    LET g == Src_cancel_guard(caller) IN
    IF g # "" THEN Fail(g)
    ELSE Done([state EXCEPT !.is_cancelled = TRUE,
                            !.cancelled_at = Some(now)],
              used_secret_indices,
              <<transfer_funds_to_maker, transfer_safety_deposit(caller)>>)
\* Src_rescue_funds issuing the transfer before it checks the rescue delay.
Src_rescue_funds_TransferFirst(caller, token, amount) ==
    LET current_time == now
        rescue_start ==
            immutables.timelocks.deployed_at + (30 * 24 * 60 * 60 * Ms(1000))
        out == << [kind |-> IF token = NATIVE THEN "transfer" ELSE "ft_transfer",
                   token |-> token, to |-> immutables.maker,
                   amount |-> amount] >>
    IN
    IF caller # immutables.maker THEN Fail("Only maker can rescue funds")
    ELSE IF ~(current_time >= rescue_start)
    THEN [Fail("Rescue delay not expired") EXCEPT !.out = out]
    ELSE Done(state, used_secret_indices, out)

\* rescue_funds: maker only, 30 days after deployed_at.
Src_rescue_funds(caller, token, amount) ==
    LET current_time == now
        rescue_start ==
            immutables.timelocks.deployed_at + (30 * 24 * 60 * 60 * Ms(1000))
    IN
    IF caller # immutables.maker THEN Fail("Only maker can rescue funds")
    ELSE IF ~(current_time >= rescue_start) THEN Fail("Rescue delay not expired")
    ELSE IF token = NATIVE
    THEN Done(state, used_secret_indices,
              << [kind |-> "transfer", token |-> NATIVE,
                  to |-> immutables.maker, amount |-> amount] >>)
    ELSE Done(state, used_secret_indices,
              << [kind |-> "ft_transfer", token |-> token,
                  to |-> immutables.maker, amount |-> amount] >>)
\* Src_get_current_phase keeping the finality lock through the instant the
\* withdrawal starts.
Src_get_current_phase_InclusiveLock ==
    LET current_time == now
        withdrawal_start == Src_get_timelock_timestamp("SrcWithdrawal")
        public_withdrawal_start ==
            Src_get_timelock_timestamp("SrcPublicWithdrawal")
        cancellation_start == Src_get_timelock_timestamp("SrcCancellation")
        public_cancellation_start ==
            Src_get_timelock_timestamp("SrcPublicCancellation")
    IN
    IF current_time <= withdrawal_start THEN "A1_FINALITY_LOCK"
    ELSE IF current_time < public_withdrawal_start THEN "A2_RESOLVER_EXCLUSIVE"
    ELSE IF current_time < cancellation_start THEN "A3_PUBLIC_WITHDRAWAL"
    ELSE IF current_time < public_cancellation_start
    THEN "A3_PRIVATE_CANCELLATION"
    ELSE "A4_PUBLIC_CANCELLATION"

Src_get_current_phase ==
    LET current_time == now
        withdrawal_start == Src_get_timelock_timestamp("SrcWithdrawal")
        public_withdrawal_start ==
            Src_get_timelock_timestamp("SrcPublicWithdrawal")
        cancellation_start == Src_get_timelock_timestamp("SrcCancellation")
        public_cancellation_start ==
            Src_get_timelock_timestamp("SrcPublicCancellation")
    IN
    IF current_time < withdrawal_start THEN "A1_FINALITY_LOCK"
    ELSE IF current_time < public_withdrawal_start THEN "A2_RESOLVER_EXCLUSIVE"
    ELSE IF current_time < cancellation_start THEN "A3_PUBLIC_WITHDRAWAL"
    ELSE IF current_time < public_cancellation_start
    THEN "A3_PRIVATE_CANCELLATION"
    ELSE "A4_PUBLIC_CANCELLATION"

(***************************************************************************)
(* The state machine of one escrow                                         *)
(***************************************************************************)
NoCall == [op |-> "none", ok |-> TRUE, err |-> ""]
InitCall == [op |-> "init", ok |-> TRUE, err |-> ""]

\* The accounts init is called by, the factory accounts it is told, and the
\* deposits attached to it: around what EscrowSrc::init expects.
InitCallers == Callers \cup {FactoryAccount}
InitFactories == {FactoryAccount, Other}
InitAttachedInputs(imm) ==
    LET expected_amount ==
            IF imm.token = NATIVE THEN imm.amount + imm.safety_deposit
            ELSE imm.safety_deposit
    IN {expected_amount - 1, expected_amount, expected_amount + 1,
        imm.amount + imm.safety_deposit}

Construct(sd, c) ==
    /\ side = sd
    /\ immutables = c.immutables
    /\ factory = c.factory
    /\ state = c.state
    /\ merkle_root = c.merkle_root
    /\ used_secret_indices = c.used_secret_indices
    /\ now = c.immutables.timelocks.deployed_at
    /\ transfers = <<>>
    /\ last = InitCall
    /\ deployed_escrows = <<>>
    /\ escrow_counter = 0
    /\ pending = EmptyBag

\* The escrows whose init did not panic.
Init ==
    \E imm \in ImmutablesInputs, predecessor \in InitCallers :
        \/ /\ Dst_init_guard(predecessor, FactoryAccount) = ""
           /\ Construct("dst", Dst_init(imm, FactoryAccount))
        \/ \E attached_deposit \in InitAttachedInputs(imm) :
              /\ Src_init_guard(predecessor, imm, FactoryAccount,
                                attached_deposit) = ""
              /\ Construct("src", Src_init(imm, FactoryAccount))
\* Call with a settling call dropping the Merkle root.
Call_DropsRoot(op, r) ==
    /\ state' = r.state
    /\ used_secret_indices' = r.used
    /\ transfers' = transfers \o r.out
    /\ last' = [op |-> op, ok |-> r.ok, err |-> r.err]
    /\ merkle_root' = IF r.ok /\ op = "withdraw" THEN None ELSE merkle_root
    /\ UNCHANGED <<side, immutables, factory, now, factory_vars>>

\* The effect of one call with outcome r.
Call(op, r) ==
    /\ state' = r.state
    /\ used_secret_indices' = r.used
    /\ transfers' = transfers \o r.out
    /\ last' = [op |-> op, ok |-> r.ok, err |-> r.err]
    /\ UNCHANGED <<side, immutables, factory, merkle_root, now, factory_vars>>

\* A later block.
Tick ==
    /\ \E k \in 1..MaxTick :
          /\ now + Ms(1000) * k <= LastTime
          /\ now' = now + Ms(1000) * k
    /\ last' = NoCall
    /\ UNCHANGED <<escrow_vars, transfers, factory_vars>>

\* A block at the end of the rescue delay: its last millisecond or the first
\* block time at which rescue_funds is open.
TickRescue ==
    /\ \E t \in RescueTimes : now < t /\ now' = t
    /\ last' = NoCall
    /\ UNCHANGED <<escrow_vars, transfers, factory_vars>>

\* The arguments a call is tried with.  A call that the assertions before
\* verify_secret reject (g # "") never reads its secret and proof, so one pair
\* of arguments stands for all of them.
Args(g) ==
    IF g # "" THEN {<<CHOOSE s \in SecretInputs : TRUE, None>>}
    ELSE SecretInputs \X ProofInputs

DstDepositFunds ==
    /\ side = "dst"
    /\ \E c \in Callers : Call("deposit_funds", Dst_deposit_funds(c))

DstWithdraw ==
    /\ side = "dst"
    /\ \E c \in Callers : \E a \in Args(Dst_withdraw_guard(c)) :
          Call("withdraw", Dst_withdraw(c, a[1], a[2]))

DstPublicWithdraw ==
    /\ side = "dst"
    /\ \E c \in Callers : \E a \in Args(Dst_public_withdraw_guard(c)) :
          Call("public_withdraw", Dst_public_withdraw(c, a[1], a[2]))

DstCancel ==
    /\ side = "dst"
    /\ \E c \in Callers : Call("cancel", Dst_cancel(c))

SrcWithdraw ==
    /\ side = "src"
    /\ \E c \in Callers : \E a \in Args(Src_withdraw_guard(c)) :
          Call("withdraw", Src_withdraw(c, a[1], a[2]))

SrcPublicWithdraw ==
    /\ side = "src"
    /\ \E c \in Callers : \E a \in Args(Src_public_withdraw_guard(c)) :
          Call("public_withdraw", Src_public_withdraw(c, a[1], a[2]))

SrcCancel ==
    /\ side = "src"
    /\ \E c \in Callers : Call("cancel", Src_cancel(c))

\* The rescue_funds calls that succeeded so far: the transfers issued beyond
\* those of deposit_funds and of the settling call.
Rescued ==
    Len(transfers)
      - (IF side = "dst" /\ state.is_funded /\ immutables.token # NATIVE
         THEN 1 ELSE 0)
      - (IF state.is_withdrawn \/ state.is_cancelled THEN 2 ELSE 0)

DstRescueFunds ==
    /\ side = "dst"
    /\ \E c \in Callers, a \in RescueInputs :
          LET r == Dst_rescue_funds(c, a[1], a[2]) IN
          /\ r.ok => Rescued < MaxRescues
          /\ Call("rescue_funds", r)

SrcRescueFunds ==
    /\ side = "src"
    /\ \E c \in Callers, a \in RescueInputs :
          LET r == Src_rescue_funds(c, a[1], a[2]) IN
          /\ r.ok => Rescued < MaxRescues
          /\ Call("rescue_funds", r)

Next ==
    \/ Tick
    \/ DstDepositFunds
    \/ DstWithdraw
    \/ DstPublicWithdraw
    \/ DstCancel
    \/ SrcWithdraw
    \/ SrcPublicWithdraw
    \/ SrcCancel
    \/ TickRescue
    \/ DstRescueFunds
    \/ SrcRescueFunds

Spec == Init /\ [][Next]_vars

(***************************************************************************)
(* EscrowFactory (packages/near-contracts/escrow-factory)                  *)
(*                                                                         *)
(* The factory computes in raw milliseconds, as the code does; an escrow   *)
(* it instantiates reads the deployed_at it is given as milliseconds.      *)
(* `transfers` is the log of the promise actions by which the factory had  *)
(* an escrow account created (the kind and the account of each), and       *)
(* `pending` holds the calls of the factory itself that a promise has      *)
(* scheduled and the runtime has not delivered yet.                        *)
(***************************************************************************)
block_timestamp_ms == now * TimeUnit

\* Two order hashes that agree in their first 8 characters.
OrderHash1 == <<"0","x","a","b","c","d","e","f","0","1">>
OrderHash2 == <<"0","x","a","b","c","d","e","f","0","2">>
OrderHashInputs == {OrderHash1, OrderHash2}

\* The Immutables the create calls are given (deployed_at is overwritten): an
\* order of the native asset and an order of a NEP-141 token.
FactoryImmutablesInputs ==
    { [order_hash |-> o[1], hashlock |-> SingleHashlock, maker |-> Maker,
       taker |-> Taker, token |-> o[2], amount |-> 1000, safety_deposit |-> 50,
       timelocks |-> [OrderedTimelocks EXCEPT !.deployed_at = 0]] :
        o \in { <<OrderHash1, "near">>, <<OrderHash2, "usdt.token">> } }

\* env::attached_deposit(): the value the order requires, and one less.
AttachedInputs(immutables_) ==
    IF immutables_.token = "near"
    THEN { immutables_.amount + immutables_.safety_deposit - 1,
           immutables_.amount + immutables_.safety_deposit }
    ELSE { immutables_.safety_deposit - 1, immutables_.safety_deposit }

\* src_cancellation_timestamp: one millisecond grain before, at, and one
\* second after the destination cancellation start of an escrow created now.
SrcCancellationInputs ==
    { block_timestamp_ms + OrderedTimelocks.dst_cancellation * 1000 + d :
        d \in {0 - TimeUnit, 0, 1000} }

\* What the token contract answers to `allowance`: a failure or an amount.
AllowanceInputs == {None, Some(0), Some(999), Some(1000), Some(5000)}

\* serde_json::to_vec(immutables): the fields in the order of the struct.
to_vec(immutables_) ==
    << immutables_.order_hash, immutables_.hashlock, immutables_.maker,
       immutables_.taker, immutables_.token, immutables_.amount,
       immutables_.safety_deposit,
       << immutables_.timelocks.deployed_at,
          immutables_.timelocks.src_withdrawal,
          immutables_.timelocks.src_public_withdrawal,
          immutables_.timelocks.src_cancellation,
          immutables_.timelocks.src_public_cancellation,
          immutables_.timelocks.dst_withdrawal,
          immutables_.timelocks.dst_public_withdrawal,
          immutables_.timelocks.dst_cancellation >> >>

compute_immutables_hash(immutables_) == Sha256(to_vec(immutables_))

\* "escrow-{first 16 hex characters of the hash}.{factory}"; the 64 bit prefix
\* of the digest is taken to be collision-free as the digest is.
compute_escrow_address(immutables_) ==
    [label |-> "escrow", hash16 |-> compute_immutables_hash(immutables_),
     parent |-> FactoryAccount]

\* The outcome of a factory call: a panic rolls the call back.  `out` are the
\* promise actions issued, `then` the factory calls they schedule, `ret` the
\* value returned.
FFail(msg) ==
    [ok |-> FALSE, err |-> msg, deployed_escrows |-> deployed_escrows,
     escrow_counter |-> escrow_counter, out |-> <<>>, then |-> <<>>,
     ret |-> None]
FDone(de, ec, out, then, ret) ==
    [ok |-> TRUE, err |-> "", deployed_escrows |-> de, escrow_counter |-> ec,
     out |-> out, then |-> then, ret |-> ret]

\* A promise action to another account, and a scheduled call of the factory
\* with its arguments and attached deposit.  The callback of a source escrow
\* is listed with the Immutables of the init whose result it receives.
PromiseAction(kind, account, immutables_, deposit) ==
    [kind |-> kind, account |-> account, immutables |-> immutables_,
     deposit |-> deposit]
Scheduled(call, order_hash, account, immutables_, deposit) ==
    [call |-> call, order_hash |-> order_hash, account |-> account,
     immutables |-> immutables_, deposit |-> deposit,
     attached_non_native_token |-> 0]
\* create_dst_escrow asking for more than the required deposit.
create_dst_escrow_StrictDeposit(dst_immutables, src_cancellation_timestamp, attached_deposit) ==
    LET required_deposit ==
            IF dst_immutables.token = "near"
            THEN dst_immutables.amount + dst_immutables.safety_deposit
            ELSE dst_immutables.safety_deposit
        immutables_ ==
            [dst_immutables EXCEPT !.timelocks.deployed_at = block_timestamp_ms]
        dst_cancellation_start ==
            immutables_.timelocks.deployed_at
              + (immutables_.timelocks.dst_cancellation * 1000)
        escrow_account ==
            [label |-> "escrow", counter |-> escrow_counter,
             hash8 |-> SubSeq(immutables_.order_hash, 1, 8),
             parent |-> FactoryAccount]
    IN
    IF ~(attached_deposit > required_deposit)
    THEN FFail("Insufficient deposit")
    ELSE IF ~(dst_cancellation_start <= src_cancellation_timestamp)
    THEN FFail("Invalid creation time: dst cancellation would start after src")
    ELSE IF Len(immutables_.order_hash) < 8
    THEN FFail("byte index 8 is out of bounds")
    ELSE FDone([deployed_escrows EXCEPT
                   ![immutables_.order_hash] = Some(escrow_account)],
               escrow_counter + 1,
               << PromiseAction("create_escrow", Some(escrow_account),
                                immutables_, required_deposit) >>,
               << Scheduled("on_escrow_created", immutables_.order_hash,
                            Some(escrow_account), None, 0) >>,
               None)
\* create_dst_escrow refusing a destination cancellation that starts at the
\* source cancellation timestamp.
create_dst_escrow_StrictTiming(dst_immutables, src_cancellation_timestamp, attached_deposit) ==
    LET required_deposit ==
            IF dst_immutables.token = "near"
            THEN dst_immutables.amount + dst_immutables.safety_deposit
            ELSE dst_immutables.safety_deposit
        immutables_ ==
            [dst_immutables EXCEPT !.timelocks.deployed_at = block_timestamp_ms]
        dst_cancellation_start ==
            immutables_.timelocks.deployed_at
              + (immutables_.timelocks.dst_cancellation * 1000)
        escrow_account ==
            [label |-> "escrow", counter |-> escrow_counter,
             hash8 |-> SubSeq(immutables_.order_hash, 1, 8),
             parent |-> FactoryAccount]
    IN
    IF ~(attached_deposit >= required_deposit)
    THEN FFail("Insufficient deposit")
    ELSE IF ~(dst_cancellation_start < src_cancellation_timestamp)
    THEN FFail("Invalid creation time: dst cancellation would start after src")
    ELSE IF Len(immutables_.order_hash) < 8
    THEN FFail("byte index 8 is out of bounds")
    ELSE FDone([deployed_escrows EXCEPT
                   ![immutables_.order_hash] = Some(escrow_account)],
               escrow_counter + 1,
               << PromiseAction("create_escrow", Some(escrow_account),
                                immutables_, required_deposit) >>,
               << Scheduled("on_escrow_created", immutables_.order_hash,
                            Some(escrow_account), None, 0) >>,
               None)

create_dst_escrow(dst_immutables, src_cancellation_timestamp, attached_deposit) ==
    LET required_deposit ==
            IF dst_immutables.token = "near"
            THEN dst_immutables.amount + dst_immutables.safety_deposit
            ELSE dst_immutables.safety_deposit
        immutables_ ==
            [dst_immutables EXCEPT !.timelocks.deployed_at = block_timestamp_ms]
        dst_cancellation_start ==
            immutables_.timelocks.deployed_at
              + (immutables_.timelocks.dst_cancellation * 1000)
        escrow_account ==
            [label |-> "escrow", counter |-> escrow_counter,
             hash8 |-> SubSeq(immutables_.order_hash, 1, 8),
             parent |-> FactoryAccount]
    IN
    IF ~(attached_deposit >= required_deposit)
    THEN FFail("Insufficient deposit")
    ELSE IF ~(dst_cancellation_start <= src_cancellation_timestamp)
    THEN FFail("Invalid creation time: dst cancellation would start after src")
    ELSE IF Len(immutables_.order_hash) < 8
    THEN FFail("byte index 8 is out of bounds")
    ELSE FDone([deployed_escrows EXCEPT
                   ![immutables_.order_hash] = Some(escrow_account)],
               escrow_counter + 1,
               << PromiseAction("create_escrow", Some(escrow_account),
                                immutables_, required_deposit) >>,
               << Scheduled("on_escrow_created", immutables_.order_hash,
                            Some(escrow_account), None, 0) >>,
               None)

create_src_escrow(order_hash, immutables_in, attached_deposit) ==
    LET immutables_ ==
            [immutables_in EXCEPT
                !.timelocks.deployed_at = block_timestamp_ms \div 1000]
        deployment ==
            Scheduled("src_contract_deployment", order_hash, None,
                      immutables_, attached_deposit)
    IN
    IF immutables_.token # "near"
    THEN FDone(deployed_escrows, escrow_counter,
               << PromiseAction("allowance", None, None, 1) >>,
               <<deployment>>, None)
    ELSE FDone(deployed_escrows, escrow_counter, <<>>, <<deployment>>, None)

\* src_contract_deployment, the call create_src_escrow schedules.  It takes
\* attached_non_native_token from its arguments, which create_src_escrow
\* sets to 0, and has no #[callback_result]: what the token contract answered
\* to `allowance` (allowance_answer) is not read.
src_contract_deployment(item, allowance_answer) ==
    LET immutables_ ==
            [item.immutables EXCEPT
                !.timelocks.deployed_at = block_timestamp_ms \div 1000]
        required_deposit ==
            IF immutables_.token = "near"
            THEN immutables_.amount + immutables_.safety_deposit
            ELSE immutables_.safety_deposit
        required_approval ==
            IF immutables_.token # "near" THEN immutables_.amount ELSE 0
        escrow_account == compute_escrow_address(immutables_)
    IN
    IF ~(item.attached_non_native_token >= required_approval)
    THEN FFail("Insufficient attached deposit for non-native token")
    ELSE IF ~(item.deposit >= required_deposit)
    THEN FFail("Insufficient deposit")
    ELSE FDone([deployed_escrows EXCEPT ![item.order_hash] = Some(escrow_account)],
               escrow_counter + 1,
               << PromiseAction("create_account", Some(escrow_account),
                                immutables_, required_deposit) >>,
               << Scheduled("on_src_escrow_created", item.order_hash,
                            Some(escrow_account), immutables_, 0) >>,
               None)

\* The callbacks; call_result is TRUE for Ok(()), FALSE for Err(_).
on_src_escrow_created(order_hash, escrow_account, call_result) ==
    IF call_result
    THEN FDone(deployed_escrows, escrow_counter, <<>>, <<>>,
               Some([escrow_account |-> escrow_account,
                     order_hash |-> order_hash, success |-> TRUE]))
    ELSE FDone([deployed_escrows EXCEPT ![order_hash] = None],
               escrow_counter - 1, <<>>, <<>>,
               Some([escrow_account |-> escrow_account,
                     order_hash |-> order_hash, success |-> FALSE]))
\* on_escrow_created leaving the registry entry in place on failure.
on_escrow_created_KeepEntry(order_hash, escrow_account, call_result) ==
    IF call_result
    THEN FDone(deployed_escrows, escrow_counter, <<>>, <<>>,
               Some([escrow_account |-> escrow_account,
                     order_hash |-> order_hash, success |-> TRUE]))
    ELSE FDone(deployed_escrows, escrow_counter, <<>>, <<>>,
               Some([escrow_account |-> escrow_account,
                     order_hash |-> order_hash, success |-> FALSE]))

on_escrow_created(order_hash, escrow_account, call_result) ==
    IF call_result
    THEN FDone(deployed_escrows, escrow_counter, <<>>, <<>>,
               Some([escrow_account |-> escrow_account,
                     order_hash |-> order_hash, success |-> TRUE]))
    ELSE FDone([deployed_escrows EXCEPT ![order_hash] = None],
               escrow_counter, <<>>, <<>>,
               Some([escrow_account |-> escrow_account,
                     order_hash |-> order_hash, success |-> FALSE]))

get_escrow_address(order_hash) == deployed_escrows[order_hash]

(***************************************************************************)
(* The state machine of the factory                                        *)
(***************************************************************************)
\* Number of create calls that get as far as issuing a promise.
MaxCreates == 3

\* Number of block times after the first the factory is called at, half a
\* second apart.
MaxFactoryTick == 1

FactoryStartTime == Ms(10500)
FactoryLastTime == FactoryStartTime + Ms(500) * MaxFactoryTick

\* EscrowFactory::new, no escrow instantiated yet.
FactoryInit ==
    /\ deployed_escrows = [h \in OrderHashInputs |-> None]
    /\ escrow_counter = 0
    /\ pending = EmptyBag
    /\ now = FactoryStartTime
    /\ transfers = <<>>
    /\ last = [op |-> "none", ok |-> TRUE, err |-> "", ret |-> None]
    /\ side = "none"
    /\ immutables = None
    /\ factory = None
    /\ state = None
    /\ merkle_root = None
    /\ used_secret_indices = <<>>

\* The create calls so far that had an escrow account created or are still
\* to reach src_contract_deployment.
Creates ==
    Len(transfers)
      + BagCardinality([x \in {y \in BagToSet(pending) :
                                 y.call = "src_contract_deployment"}
                        |-> pending[x]])

\* The bag of the elements of a sequence.
SeqToBag(seq) ==
    [x \in {seq[k] : k \in 1..Len(seq)} |->
        Cardinality({k \in 1..Len(seq) : seq[k] = x})]

\* What the log keeps of the promise actions of a call.
Logged(out) ==
    IF out # <<>> /\ IsSome(out[1].account)
    THEN << [kind |-> out[1].kind, account |-> out[1].account] >>
    ELSE <<>>

\* The effect of one factory call with outcome r; delivered is the bag of the
\* scheduled call it delivers (empty: a call from outside).
FCall(op, r, delivered) ==
    /\ deployed_escrows' = r.deployed_escrows
    /\ escrow_counter' = r.escrow_counter
    /\ transfers' = transfers \o Logged(r.out)
    /\ pending' = (pending (-) delivered) (+) SeqToBag(r.then)
    /\ last' = [op |-> op, ok |-> r.ok, err |-> r.err, ret |-> r.ret]
    /\ UNCHANGED now

\* The source escrow of a creation the runtime reported as done: init has
\* stored the Immutables it was given and reads their deployed_at as
\* milliseconds.  (A destination escrow is instantiated by the template
\* contract, another account.)
Instantiate(immutables_) ==
    LET c == Src_init([immutables_ EXCEPT !.timelocks.deployed_at = Ms(@)],
                      FactoryAccount)
        required_deposit ==
            IF immutables_.token = "near"
            THEN immutables_.amount + immutables_.safety_deposit
            ELSE immutables_.safety_deposit
    IN
    /\ Src_init_guard(FactoryAccount, immutables_, FactoryAccount,
                      required_deposit) = ""
    /\ side' = "src"
    /\ immutables' = c.immutables
    /\ factory' = c.factory
    /\ state' = c.state
    /\ merkle_root' = c.merkle_root
    /\ used_secret_indices' = c.used_secret_indices

FactoryTick ==
    /\ \E k \in 1..MaxFactoryTick :
          /\ now + Ms(500) * k <= FactoryLastTime
          /\ now' = now + Ms(500) * k
    /\ last' = [op |-> "none", ok |-> TRUE, err |-> "", ret |-> None]
    /\ UNCHANGED <<escrow_vars, transfers, factory_vars>>

CreateDstEscrow ==
    /\ \E imm \in FactoryImmutablesInputs, ts \in SrcCancellationInputs :
       \E att \in AttachedInputs(imm) :
          LET r == create_dst_escrow(imm, ts, att) IN
          /\ r.ok => Creates < MaxCreates
          /\ FCall("create_dst_escrow", r, EmptyBag)
    /\ UNCHANGED escrow_vars

CreateSrcEscrow ==
    /\ Creates < MaxCreates
    /\ \E imm \in FactoryImmutablesInputs : \E att \in AttachedInputs(imm) :
          FCall("create_src_escrow",
                create_src_escrow(imm.order_hash, imm, att), EmptyBag)
    /\ UNCHANGED escrow_vars

SrcContractDeployment ==
    /\ \E item \in BagToSet(pending) :
          /\ item.call = "src_contract_deployment"
          /\ \E answer \in (IF item.immutables.token = "near"
                            THEN {None} ELSE AllowanceInputs) :
                FCall("src_contract_deployment",
                      src_contract_deployment(item, answer), SetToBag({item}))
    /\ UNCHANGED escrow_vars

OnSrcEscrowCreated ==
    \E item \in BagToSet(pending), call_result \in BOOLEAN :
        /\ item.call = "on_src_escrow_created"
        /\ FCall("on_src_escrow_created",
                 on_src_escrow_created(item.order_hash, item.account[1],
                                       call_result),
                 SetToBag({item}))
        /\ IF call_result THEN Instantiate(item.immutables)
           ELSE UNCHANGED escrow_vars

OnEscrowCreated ==
    \E item \in BagToSet(pending), call_result \in BOOLEAN :
        /\ item.call = "on_escrow_created"
        /\ FCall("on_escrow_created",
                 on_escrow_created(item.order_hash, item.account[1],
                                   call_result),
                 SetToBag({item}))
        /\ UNCHANGED escrow_vars

FactoryNext ==
    \/ FactoryTick
    \/ CreateDstEscrow
    \/ CreateSrcEscrow
    \/ SrcContractDeployment
    \/ OnSrcEscrowCreated
    \/ OnEscrowCreated

FactorySpec == FactoryInit /\ [][FactoryNext]_vars

(***************************************************************************)
(* EscrowFactory::validate_partial_fill                                    *)
(*                                                                         *)
(* A u32 is kept as a U32Bits bit number: `as u32` is the remainder modulo *)
(* 2^U32Bits.  The amounts (u128) stay far below their limit.              *)
(***************************************************************************)
U32Bits == 3
U32 == 2 ^ U32Bits
AsU32(n) == n % U32

\* Largest order_making_amount tried.
MaxAmount == 8

validate_partial_fill(making_amount, remaining_making_amount, order_making_amount, parts_amount, validated_index) ==
    LET calculated_index ==
            ((order_making_amount - remaining_making_amount + making_amount - 1)
                * parts_amount) \div order_making_amount
        prev_calculated_index ==
            ((order_making_amount - remaining_making_amount - 1)
                * parts_amount) \div order_making_amount
    IN
    IF remaining_making_amount = making_amount
    THEN AsU32(calculated_index + 2) = validated_index
    ELSE IF /\ order_making_amount # remaining_making_amount
            /\ calculated_index = prev_calculated_index
    THEN FALSE
    ELSE AsU32(calculated_index + 1) = validated_index

\* The arguments: every order up to MaxAmount with every remainder and fill
\* the order allows, every number of parts and every index of the u32 range;
\* and an order of 1000 in 4 parts filled by 250.
PartialFillInputs ==
    { <<m, r, o, p, i>> :
        m \in 1..MaxAmount, r \in 1..MaxAmount, o \in 1..MaxAmount,
        p \in 0..(U32 - 1), i \in 0..(U32 - 1) }
    \cup
    { <<250, r, 1000, 4, i>> : r \in {1000, 750, 500, 250}, i \in 0..(U32 - 1) }

PartialFillInit ==
    /\ \E a \in PartialFillInputs :
          /\ a[3] > 0
          /\ 0 < a[1] /\ a[1] <= a[2] /\ a[2] <= a[3]
          /\ last = [op |-> "none", args |-> a, ret |-> None]
    /\ side = "none"
    /\ immutables = None
    /\ factory = None
    /\ state = None
    /\ merkle_root = None
    /\ used_secret_indices = <<>>
    /\ now = 0
    /\ transfers = <<>>
    /\ deployed_escrows = <<>>
    /\ escrow_counter = 0
    /\ pending = EmptyBag

\* The view call, answered.
ValidatePartialFill ==
    /\ last.op = "none"
    /\ last' = [op |-> "validate_partial_fill", args |-> last.args,
                ret |-> Some(validate_partial_fill(last.args[1], last.args[2],
                                                   last.args[3], last.args[4],
                                                   last.args[5]))]
    /\ UNCHANGED <<escrow_vars, now, transfers, factory_vars>>

PartialFillNext == ValidatePartialFill

PartialFillSpec == PartialFillInit /\ [][PartialFillNext]_vars

(***************************************************************************)
(* Resolver (packages/near-contracts/resolver)                             *)
(*                                                                         *)
(* `state` is the Resolver struct, `transfers` the calls dispatched to the *)
(* factory.  A u128 is kept as a U128Bits bit number.  The product of the  *)
(* pro-rata amount is an unchecked `*`: when it does not fit, the call     *)
(* panics in a build with overflow checks and wraps in one without.        *)
(***************************************************************************)
U128Bits == 7
U128 == 2 ^ U128Bits

ResolverAccount == "resolver.near"   \* env::current_account_id()
ResolverOwner == "owner.near"
ResolverCallers == {ResolverOwner, Other}

\* str::parse::<AccountId> of the taker assets tried: a lower-case address is
\* an account id, an address with upper-case letters is none.
TakerAssetInputs == {"0xdac17f958d2ee523a2206206994597c13d831ec7",
                     "0xdAC17F958D2ee523a2206206994597C13D831ec7"}
parse(text) ==
    IF text = "0xdac17f958d2ee523a2206206994597c13d831ec7" THEN Some(text)
    ELSE None

OrderInputs ==
    { [maker |-> Maker, taker |-> Taker, making_amount |-> mk,
       taking_amount |-> tk, maker_asset |-> "near", taker_asset |-> ta,
       salt |-> "1",
       extension |-> [hashlock |-> SingleHashlock, src_chain_id |-> 1,
                      dst_chain_id |-> 2, src_safety_deposit |-> 5,
                      dst_safety_deposit |-> 6,
                      timelocks |-> OrderedTimelocks]] :
        mk \in {0, 8}, tk \in {3, 40}, ta \in TakerAssetInputs }
FillAmountInputs == {0, 4, 9}

\* "0x" and the digest of the formatted order (its hex encoding, a bijection,
\* left out).
compute_order_hash(order) ==
    <<"0", "x">> \o
    Sha256(<<order.maker, order.making_amount, order.taking_amount,
             order.maker_asset, order.taker_asset, order.salt,
             order.extension.hashlock>>)

\* The outcome of a resolver call: a panic dispatches nothing.
RFail(msg) == [ok |-> FALSE, err |-> msg, out |-> <<>>]
RDone(out) == [ok |-> TRUE, err |-> "", out |-> out]

deploy_src(predecessor, order, amount, overflow_checks) ==
    LET order_hash == compute_order_hash(order)
        timelocks == [order.extension.timelocks EXCEPT !.deployed_at = 0]
        immutables_ ==
            [order_hash |-> order_hash, hashlock |-> order.extension.hashlock,
             maker |-> order.maker, taker |-> ResolverAccount,
             token |-> order.maker_asset, amount |-> amount,
             safety_deposit |-> order.extension.src_safety_deposit,
             timelocks |-> timelocks]
        product == order.taking_amount * amount
        token == parse(order.taker_asset)
        required_deposit ==
            IF order.maker_asset = "near"
            THEN amount + order.extension.src_safety_deposit
            ELSE order.extension.src_safety_deposit
    IN
    IF predecessor # state.owner THEN RFail("Only owner can deploy escrows")
    ELSE IF ~(amount <= order.making_amount)
    THEN RFail("Amount exceeds order making amount")
    ELSE IF product >= U128 /\ overflow_checks
    THEN RFail("attempt to multiply with overflow")
    ELSE IF order.making_amount = 0
    THEN RFail("attempt to divide by zero")
    ELSE IF IsNone(token)
    THEN RFail("called Result::unwrap() on an Err value")
    ELSE RDone(<< [receiver |-> state.escrow_factory,
                   method |-> "create_src_escrow",
                   order_hash |-> order_hash,
                   immutables |-> immutables_,
                   dst_complement |->
                       [maker |-> order.maker,
                        amount |-> (product % U128) \div order.making_amount,
                        token |-> token[1],
                        safety_deposit |-> order.extension.dst_safety_deposit,
                        chain_id |-> order.extension.dst_chain_id],
                   deposit |-> required_deposit] >>)

deploy_dst(predecessor, dst_immutables, src_cancellation_timestamp, attached_deposit) ==
    IF predecessor # state.owner THEN RFail("Only owner can deploy escrows")
    ELSE RDone(<< [receiver |-> state.escrow_factory,
                   method |-> "create_dst_escrow",
                   immutables |-> dst_immutables,
                   src_cancellation_timestamp |-> src_cancellation_timestamp,
                   deposit |-> attached_deposit] >>)

(***************************************************************************)
(* The state machine of the resolver                                       *)
(***************************************************************************)
\* Number of calls the resolver dispatches to the factory.
MaxDeploys == 1

\* Resolver::new
ResolverInit ==
    /\ state = [owner |-> ResolverOwner, escrow_factory |-> FactoryAccount,
                dst_chain_resolver |-> "0xresolver"]
    /\ transfers = <<>>
    /\ last = [op |-> "none", ok |-> TRUE, err |-> "", args |-> <<>>]
    /\ side = "none"
    /\ immutables = None
    /\ factory = None
    /\ merkle_root = None
    /\ used_secret_indices = <<>>
    /\ now = 0
    /\ deployed_escrows = <<>>
    /\ escrow_counter = 0
    /\ pending = EmptyBag

\* The effect of one resolver call with outcome r.
RCall(op, args, r) ==
    /\ r.ok => Len(transfers) < MaxDeploys
    /\ transfers' = transfers \o r.out
    /\ last' = [op |-> op, ok |-> r.ok, err |-> r.err, args |-> args]

DeploySrc ==
    /\ \E c \in ResolverCallers, order \in OrderInputs :
       \E amount \in FillAmountInputs, overflow_checks \in BOOLEAN :
          RCall("deploy_src", <<c, order, amount>>,
                deploy_src(c, order, amount, overflow_checks))
    /\ UNCHANGED <<escrow_vars, now, factory_vars>>

DeployDst ==
    /\ \E c \in ResolverCallers, imm \in FactoryImmutablesInputs :
       \E att \in AttachedInputs(imm) :
          RCall("deploy_dst", <<c, imm, 13000, att>>,
                deploy_dst(c, imm, 13000, att))
    /\ UNCHANGED <<escrow_vars, now, factory_vars>>

ResolverNext ==
    \/ DeploySrc
    \/ DeployDst

ResolverSpec == ResolverInit /\ [][ResolverNext]_vars

(***************************************************************************)
(* The claims                                                              *)
(***************************************************************************)
\* The stage starts, written out from deployed_at and the offsets.
DstWithdrawalStart ==
    immutables.timelocks.deployed_at + immutables.timelocks.dst_withdrawal * Ms(1000)
DstPublicWithdrawalStart ==
    immutables.timelocks.deployed_at
      + immutables.timelocks.dst_public_withdrawal * Ms(1000)
DstCancellationStart ==
    immutables.timelocks.deployed_at + immutables.timelocks.dst_cancellation * Ms(1000)
SrcWithdrawalStart ==
    immutables.timelocks.deployed_at + immutables.timelocks.src_withdrawal * Ms(1000)
SrcPublicWithdrawalStart ==
    immutables.timelocks.deployed_at
      + immutables.timelocks.src_public_withdrawal * Ms(1000)
SrcCancellationStart ==
    immutables.timelocks.deployed_at + immutables.timelocks.src_cancellation * Ms(1000)
SrcPublicCancellationStart ==
    immutables.timelocks.deployed_at
      + immutables.timelocks.src_public_cancellation * Ms(1000)

\* The outcome of a call of the escrow's side.
Withdraw(c, s, p) ==
    IF side = "dst" THEN Dst_withdraw(c, s, p) ELSE Src_withdraw(c, s, p)
PublicWithdraw(c, s, p) ==
    IF side = "dst" THEN Dst_public_withdraw(c, s, p)
    ELSE Src_public_withdraw(c, s, p)
Cancel(c) == IF side = "dst" THEN Dst_cancel(c) ELSE Src_cancel(c)

SettlingOps == {"withdraw", "public_withdraw", "cancel"}

C1_NotBoth == ~(state.is_withdrawn /\ state.is_cancelled)

C1_SettledRejects ==
    (state.is_withdrawn \/ state.is_cancelled) =>
        \A c \in Callers :
            /\ ~Cancel(c).ok
            /\ \A s \in SecretInputs, p \in ProofInputs :
                  ~Withdraw(c, s, p).ok /\ ~PublicWithdraw(c, s, p).ok

C1_Step ==
    /\ state.is_withdrawn => state'.is_withdrawn
    /\ state.is_cancelled => state'.is_cancelled
    /\ ((state.is_withdrawn \/ state.is_cancelled) /\ last'.op \in SettlingOps)
          => ~last'.ok

\* C1: on one escrow (source or destination) is_withdrawn and is_cancelled are
\* never both true, neither flag goes from true back to false, and once either
\* is true every later withdraw, public_withdraw and cancel call fails.
C1_MutualExclusionLatch ==
    /\ [](C1_NotBoth /\ C1_SettledRejects)
    /\ [][C1_Step]_vars

\* A cancel rejected on an escrow that was withdrawn, at a time when the
\* cancellation stage is open.
C1_Witness ==
    /\ state.is_withdrawn
    /\ last.op = "cancel" /\ ~last.ok /\ last.err = "Already withdrawn"
    /\ now >= (IF side = "dst" THEN DstCancellationStart
               ELSE SrcPublicCancellationStart)

\* sha256(decode_hex(secret)) = decode_hex(hashlock), both decodings defined.
HashMatches(secret) ==
    LET d == HexDecode(secret)
        h == HexDecode(immutables.hashlock)
    IN  IsSome(d) /\ IsSome(h) /\ Sha256(d[1]) = h[1]

InvalidSecretErrors == {"Invalid secret", "Invalid secret format"}

WithdrawGuard(c) ==
    IF side = "dst" THEN Dst_withdraw_guard(c) ELSE Src_withdraw_guard(c)

\* C2: on a single-fill escrow, when every role, state and time precondition
\* of withdraw holds, withdraw succeeds if and only if
\* sha256(decode_hex(secret)) = decode_hex(hashlock); every other secret makes
\* the call fail, with an invalid-secret error when the hashlock is valid hex,
\* and sets neither is_withdrawn nor revealed_secret.  Of the secrets tried,
\* exactly the two spellings of the preimage byte match a well-formed hashlock.
C2_SecretRoundTrip ==
    IsNone(merkle_root) =>
        /\ \A c \in Callers, s \in SecretInputs, p \in ProofInputs :
              LET r == Withdraw(c, s, p) IN
              WithdrawGuard(c) = "" =>
                  /\ r.ok <=> HashMatches(s)
                  /\ r.ok <=> /\ immutables.hashlock # MalformedHashlock
                              /\ s \in {<<"0","a">>, <<"0","A">>}
                  /\ r.ok => /\ r.state.is_withdrawn
                             /\ r.state.revealed_secret = Some(s)
                  /\ ~r.ok => /\ ~r.state.is_withdrawn
                              /\ IsNone(r.state.revealed_secret)
                              /\ r.out = <<>>
                              /\ IsSome(HexDecode(immutables.hashlock))
                                    => r.err \in InvalidSecretErrors
        /\ state.is_withdrawn => HashMatches(state.revealed_secret[1])

\* A withdraw that succeeded with the upper-case spelling of the secret
\* against a lower-case hashlock.
C2_Witness ==
    /\ IsNone(merkle_root)
    /\ immutables.hashlock = SingleHashlock
    /\ last.op = "withdraw" /\ last.ok
    /\ state.revealed_secret = Some(<<"0","A">>)

\* C3: on a destination escrow withdraw can succeed only when the caller is the
\* taker, the escrow is funded and deployed_at + dst_withdrawal*1000 <= t <
\* deployed_at + dst_cancellation*1000; at exactly the withdrawal start the
\* taker's withdraw is decided by the secret alone, at exactly the cancellation
\* start every withdraw fails and the taker's cancel succeeds.
C3_DstWithdrawWindow ==
    side = "dst" =>
        LET open == state.is_funded /\ ~state.is_withdrawn /\ ~state.is_cancelled
        IN
        /\ \A c \in Callers, s \in SecretInputs, p \in ProofInputs :
              Dst_withdraw(c, s, p).ok =>
                  /\ c = immutables.taker
                  /\ state.is_funded
                  /\ DstWithdrawalStart <= now
                  /\ now < DstCancellationStart
        /\ (open /\ now = DstWithdrawalStart /\ now < DstCancellationStart) =>
              \A s \in SecretInputs, p \in ProofInputs :
                  Dst_withdraw(immutables.taker, s, p).ok
                      <=> verify_secret(s, p).ok
        /\ now = DstCancellationStart =>
              /\ \A c \in Callers, s \in SecretInputs, p \in ProofInputs :
                    ~Dst_withdraw(c, s, p).ok
              /\ open => Dst_cancel(immutables.taker).ok

\* A withdraw that succeeded at exactly the withdrawal start.
C3_Witness ==
    /\ side = "dst"
    /\ last.op = "withdraw" /\ last.ok
    /\ state.withdrawn_at = Some(DstWithdrawalStart)
    /\ immutables.timelocks.dst_withdrawal > 0

\* The two transfers a settlement issues, as the claims state them.
Principal(receiver) ==
    [kind |-> IF immutables.token = "near" THEN "transfer" ELSE "ft_transfer",
     token |-> immutables.token, to |-> receiver, amount |-> immutables.amount]
SafetyDeposit(receiver) ==
    [kind |-> "transfer", token |-> "near", to |-> receiver,
     amount |-> immutables.safety_deposit]

\* The transfers of the most recent call, when it issued two.
LastTwoTransfers ==
    IF Len(transfers) >= 2
    THEN SubSeq(transfers, Len(transfers) - 1, Len(transfers))
    ELSE <<>>

\* A native-asset destination escrow on which no call has been made since init.
FreshNativeDst ==
    /\ side = "dst"
    /\ immutables.token = "near"
    /\ immutables.hashlock = SingleHashlock
    /\ state = Dst_init(immutables, factory).state
    /\ transfers = <<>>

\* C4: on a native-asset destination escrow that has just been created with
\* amount + safety_deposit attached (no other call made on it), the taker's
\* withdraw with the correct secret at any time in [withdrawal start,
\* cancellation start) succeeds, paying amount to the maker and safety_deposit
\* to the caller; a withdraw before the withdrawal start fails with a phase
\* violation; any withdraw after the successful one fails as already withdrawn.
C4_FreshNativeWithdraw ==
    /\ FreshNativeDst =>
          LET r == Dst_withdraw(immutables.taker, <<"0","a">>, None) IN
          /\ (DstWithdrawalStart <= now /\ now < DstCancellationStart) =>
                /\ r.ok
                /\ r.out = <<Principal(immutables.maker),
                             SafetyDeposit(immutables.taker)>>
          /\ now < DstWithdrawalStart =>
                ~r.ok /\ r.err = "Finality lock not expired"
    /\ (side = "dst" /\ state.is_withdrawn) =>
          \A s \in SecretInputs, p \in ProofInputs :
              LET r == Dst_withdraw(immutables.taker, s, p) IN
              ~r.ok /\ r.err = "Already withdrawn"

\* C5 (as amended): a successful cancel on a destination escrow returns the
\* principal amount to the taker, who funded the escrow, and pays the safety
\* deposit to the caller (the taker, the only account cancel accepts).
C5_DstCancelPaysTaker ==
    side = "dst" =>
        /\ \A c \in Callers :
              LET r == Dst_cancel(c) IN
              r.ok => /\ c = immutables.taker
                      /\ r.out = <<Principal(immutables.taker), SafetyDeposit(c)>>
        /\ (last.op = "cancel" /\ last.ok) =>
              LastTwoTransfers = <<Principal(immutables.taker),
                                   SafetyDeposit(immutables.taker)>>

\* C5 (as stated): a successful cancel on a destination escrow returns the
\* principal amount to the maker and pays the safety deposit to the caller.
C5_DstCancelPaysMaker ==
    (side = "dst" /\ last.op = "cancel" /\ last.ok) =>
        LastTwoTransfers = <<Principal(immutables.maker),
                             SafetyDeposit(immutables.taker)>>

\* A destination escrow right after a successful cancel.
C5_Witness ==
    /\ side = "dst"
    /\ last.op = "cancel" /\ last.ok
    /\ state.is_cancelled
    /\ Len(transfers) >= 2

\* C6: on a source escrow that is neither withdrawn nor cancelled, cancel
\* succeeds exactly when the caller is the maker and src_cancellation start <=
\* t < src_public_cancellation start, or t >= src_public_cancellation start
\* with any caller; between the two boundaries a non-maker cannot cancel and,
\* the offsets being in stage order, nobody can cancel before the
\* private-cancellation start.  A successful cancel pays the principal to the
\* maker and the safety deposit to the caller.
C6_SrcCancel ==
    side = "src" =>
        /\ \A c \in Callers :
              LET r == Src_cancel(c) IN
              /\ (~state.is_withdrawn /\ ~state.is_cancelled) =>
                    (r.ok <=>
                        \/ /\ c = immutables.maker
                           /\ SrcCancellationStart <= now
                           /\ now < SrcPublicCancellationStart
                        \/ now >= SrcPublicCancellationStart)
              /\ (SrcCancellationStart <= now /\ now < SrcPublicCancellationStart
                    /\ c # immutables.maker) => ~r.ok
              /\ (SrcCancellationStart <= SrcPublicCancellationStart
                    /\ now < SrcCancellationStart) => ~r.ok
              /\ r.ok => r.out = <<Principal(immutables.maker), SafetyDeposit(c)>>
        /\ (last.op = "cancel" /\ last.ok) =>
              /\ LastTwoTransfers[1] = Principal(immutables.maker)
              /\ LastTwoTransfers[2].amount = immutables.safety_deposit

\* A cancel by a third account that succeeded in the public cancellation stage.
C6_Witness ==
    /\ side = "src"
    /\ last.op = "cancel" /\ last.ok
    /\ state.cancelled_at = Some(now)
    /\ now >= SrcPublicCancellationStart
    /\ LastTwoTransfers = <<Principal(immutables.maker), SafetyDeposit(Other)>>

\* C7: on a source escrow the taker's withdraw can succeed only at a time t in
\* [src_withdrawal start, src_cancellation start): once the cancellation stage
\* has started withdraw fails, so there is no instant at which both the taker's
\* withdraw and the maker's cancel can succeed.
C7_SrcWithdrawWindow ==
    side = "src" =>
        \A s \in SecretInputs, p \in ProofInputs :
            LET r == Src_withdraw(immutables.taker, s, p) IN
            r.ok => /\ SrcWithdrawalStart <= now
                    /\ now < SrcCancellationStart
                    /\ ~Src_cancel(immutables.maker).ok

\* The beneficiary of a withdrawal and the window of public_withdraw, per side.
Beneficiary == IF side = "dst" THEN immutables.maker ELSE immutables.taker
PublicWithdrawalStart ==
    IF side = "dst" THEN DstPublicWithdrawalStart ELSE SrcPublicWithdrawalStart
CancellationStart ==
    IF side = "dst" THEN DstCancellationStart ELSE SrcCancellationStart

\* C8: public_withdraw can be called by any account and succeeds exactly when
\* the time is in [public-withdrawal start, cancellation start) of the
\* escrow's side, the escrow is not withdrawn or cancelled (and, on the
\* destination side, is funded) and the secret verifies; on success it moves
\* the principal to the same beneficiary as withdraw (maker on destination,
\* taker on source) and the safety deposit to the caller.  Before the
\* public-withdrawal start a caller who is not the taker cannot cause any
\* withdrawal.
C8_PublicWithdraw ==
    /\ \A c \in Callers, s \in SecretInputs, p \in ProofInputs :
          LET r == PublicWithdraw(c, s, p)
              w == Withdraw(c, s, p)
          IN
          /\ r.ok <=> /\ PublicWithdrawalStart <= now
                      /\ now < CancellationStart
                      /\ ~state.is_withdrawn /\ ~state.is_cancelled
                      /\ side = "dst" => state.is_funded
                      /\ verify_secret(s, p).ok
          /\ r.ok => /\ r.out = <<Principal(Beneficiary), SafetyDeposit(c)>>
                     /\ r.state.is_withdrawn
          /\ w.ok => w.out = <<Principal(Beneficiary), SafetyDeposit(c)>>
          /\ (c # immutables.taker /\ now < PublicWithdrawalStart) =>
                ~r.ok /\ ~w.ok
    /\ (last.op = "public_withdraw" /\ last.ok) =>
          /\ LastTwoTransfers[1] = Principal(Beneficiary)
          /\ LastTwoTransfers[2].amount = immutables.safety_deposit
          /\ PublicWithdrawalStart <= now /\ now < CancellationStart

\* A public_withdraw by a third account that succeeded.
C8_Witness ==
    /\ last.op = "public_withdraw" /\ last.ok
    /\ state.withdrawn_at = Some(now)
    /\ LastTwoTransfers = <<Principal(Beneficiary), SafetyDeposit(Other)>>

\* The proof verifies for the secret against the stored Merkle root.
ValidProof(s, p) ==
    /\ IsSome(p)
    /\ IsSome(hash_secret(s))
    /\ verify_merkle_proof(hash_secret(s)[1], p[1].proof, p[1].index,
                           merkle_root[1]) = Some(TRUE)

\* C9: on a Merkle-mode escrow, after a withdraw with a valid (secret, index,
\* proof) has succeeded, submitting the same (secret, index) pair with the same
\* valid proof a second time fails with the index-already-used error.
C9_ReplayIndexUsed ==
    (IsSome(merkle_root) /\ state.is_withdrawn) =>
        \A p \in ProofInputs :
            LET s == state.revealed_secret[1]
                r == Withdraw(immutables.taker, s, p)
            IN
            (ValidProof(s, p) /\ p[1].index = used_secret_indices[1]) =>
                ~r.ok /\ r.err = "Secret index already used"

\* now is inside the withdrawal window of the escrow's side.
InWithdrawWindow ==
    IF side = "dst"
    THEN DstWithdrawalStart <= now /\ now < DstCancellationStart
    ELSE /\ SrcWithdrawalStart <= now
         /\ now < SrcCancellationStart
         /\ now < SrcPublicCancellationStart

\* C10: on a Merkle-mode escrow whose tree has leaves for several (secret,
\* index) pairs, after a withdraw for leaf index i has succeeded, a withdraw
\* (or public_withdraw) carrying a valid secret and proof for a different,
\* unused index j can still succeed within the withdrawal window.
C10_IndependentFills ==
    (IsSome(merkle_root) /\ Len(used_secret_indices) >= 1 /\ InWithdrawWindow) =>
        \E j \in 0..(NumLeaves - 1) :
            /\ \A k \in 1..Len(used_secret_indices) : used_secret_indices[k] # j
            /\ LET s == LeafSecrets[j + 1]
                    p == Some([proof |-> MerklePath(j), index |-> j])
                IN  \/ Withdraw(immutables.taker, s, p).ok
                    \/ \E c \in Callers : PublicWithdraw(c, s, p).ok

\* C11: with the hash collision-free, verify_merkle_proof accepts the proof
\* built for leaf L_i only together with index i: a withdraw that verified a
\* leaf's secret against the Merkle root was given the index of that leaf
\* (an index that differs from i in bits above the proof's depth, or a proof
\* with a changed sibling, is rejected), so the index it records as used is
\* the leaf's own.
C11_MerkleProofIndex ==
    (IsSome(merkle_root) /\ last.op \in {"withdraw", "public_withdraw"}
       /\ last.ok) =>
        \E i \in 0..(NumLeaves - 1) :
            /\ HexDecode(state.revealed_secret[1]) = HexDecode(LeafSecrets[i + 1])
            /\ used_secret_indices = <<i>>

\* The operations of the escrow's side, with the arguments they are tried with.
RescueFunds(c, token, amount) ==
    IF side = "dst" THEN Dst_rescue_funds(c, token, amount)
    ELSE Src_rescue_funds(c, token, amount)

\* The outcome r of a call is a rollback: nothing written, nothing issued.
RolledBack(r) ==
    r.state = state /\ r.used = used_secret_indices /\ r.out = <<>>

C12_Rejected ==
    \A c \in Callers :
        /\ ~Cancel(c).ok => RolledBack(Cancel(c))
        /\ (side = "dst" /\ ~Dst_deposit_funds(c).ok) =>
              RolledBack(Dst_deposit_funds(c))
        /\ \A a \in RescueInputs :
              ~RescueFunds(c, a[1], a[2]).ok => RolledBack(RescueFunds(c, a[1], a[2]))
        /\ \A s \in SecretInputs, p \in ProofInputs :
              /\ ~Withdraw(c, s, p).ok => RolledBack(Withdraw(c, s, p))
              /\ ~PublicWithdraw(c, s, p).ok => RolledBack(PublicWithdraw(c, s, p))

C12_Step ==
    (last'.op # "none" /\ ~last'.ok) =>
        /\ state' = state
        /\ used_secret_indices' = used_secret_indices
        /\ transfers' = transfers

RescueParty == IF side = "dst" THEN immutables.taker ELSE immutables.maker
RescueStart == immutables.timelocks.deployed_at + 2592000 * Ms(1000)

\* C13: rescue_funds succeeds if and only if the caller is the taker
\* (destination) or the maker (source) and the current time is at least
\* deployed_at plus 30 days, whatever is_funded, is_withdrawn and is_cancelled
\* are; on success it issues one transfer of the requested token and amount to
\* that party and leaves EscrowState and used_secret_indices unchanged.
C13_RescueFunds ==
    /\ \A c \in Callers, a \in RescueInputs :
          LET r == RescueFunds(c, a[1], a[2]) IN
          /\ r.ok <=> (c = RescueParty /\ now >= RescueStart)
          /\ r.ok => /\ r.state = state
                     /\ r.used = used_secret_indices
                     /\ Len(r.out) = 1
                     /\ r.out[1].token = a[1]
                     /\ r.out[1].amount = a[2]
                     /\ r.out[1].to = RescueParty
    /\ (last.op = "rescue_funds" /\ last.ok) =>
          /\ now >= RescueStart
          /\ transfers[Len(transfers)].to = RescueParty

\* A rescue at the first block time after the delay, on a withdrawn escrow.
C13_Witness ==
    /\ last.op = "rescue_funds" /\ last.ok
    /\ now = RescueStart
    /\ state.is_withdrawn
    /\ transfers[Len(transfers)].to = RescueParty

(***************************************************************************)
(* Claims about the factory (checked under FactorySpec)                    *)
(***************************************************************************)
\* What create_dst_escrow must be paid: the amount and the safety deposit of
\* an order of the native asset, the safety deposit alone otherwise.
RequiredDeposit(immutables_) ==
    IF immutables_.token = NATIVE
    THEN immutables_.amount + immutables_.safety_deposit
    ELSE immutables_.safety_deposit

\* The destination cancellation start of an escrow created in this block.
FactoryDstCancellationStart(immutables_) ==
    block_timestamp_ms + immutables_.timelocks.dst_cancellation * 1000

\* C14: create_dst_escrow called with less than the required deposit fails
\* with "Insufficient deposit", registers nothing, leaves the counter as it
\* was and issues no promise; called with exactly the required deposit and a
\* valid source cancellation timestamp it registers the order hash under the
\* escrow account it derived and issues the promise that instantiates the
\* escrow at that account with the required deposit.
C14_DstDeposit ==
    \A imm \in FactoryImmutablesInputs, ts \in SrcCancellationInputs :
    \A att \in AttachedInputs(imm) :
        LET r == create_dst_escrow(imm, ts, att) IN
        /\ att < RequiredDeposit(imm) =>
              /\ ~r.ok
              /\ r.err = "Insufficient deposit"
              /\ r.deployed_escrows = deployed_escrows
              /\ r.escrow_counter = escrow_counter
              /\ r.out = <<>>
              /\ r.then = <<>>
        /\ (att = RequiredDeposit(imm) /\ FactoryDstCancellationStart(imm) <= ts) =>
              /\ r.ok
              /\ IsSome(r.deployed_escrows[imm.order_hash])
              /\ Len(r.out) = 1
              /\ r.out[1].kind = "create_escrow"
              /\ r.out[1].account = r.deployed_escrows[imm.order_hash]
              /\ r.out[1].deposit = RequiredDeposit(imm)
              /\ r.out[1].immutables.order_hash = imm.order_hash

\* A create_dst_escrow call has just failed for its deposit, after another
\* one, paid exactly, had an escrow instantiated.
C14_Witness ==
    /\ last.op = "create_dst_escrow"
    /\ ~last.ok
    /\ last.err = "Insufficient deposit"
    /\ \E i \in 1..Len(transfers) : transfers[i].kind = "create_escrow"
    /\ \E h \in OrderHashInputs : IsSome(get_escrow_address(h))

\* C15: create_dst_escrow stamps deployed_at with the block time; whenever the
\* destination cancellation start so obtained lies after the source
\* cancellation timestamp the call fails and registers nothing (with the
\* invalid-timing error when the deposit suffices), and when the two are equal
\* it succeeds; so a call that registers an escrow gave it a cancellation
\* start no later than the source cancellation timestamp.
C15_DstTiming ==
    \A imm \in FactoryImmutablesInputs, ts \in SrcCancellationInputs :
    \A att \in AttachedInputs(imm) :
        LET r == create_dst_escrow(imm, ts, att) IN
        /\ FactoryDstCancellationStart(imm) > ts =>
              /\ ~r.ok
              /\ r.deployed_escrows = deployed_escrows
              /\ r.escrow_counter = escrow_counter
              /\ r.out = <<>>
              /\ att >= RequiredDeposit(imm) =>
                    r.err = "Invalid creation time: dst cancellation would start after src"
        /\ (FactoryDstCancellationStart(imm) = ts /\ att >= RequiredDeposit(imm)) =>
              r.ok
        /\ r.ok =>
              /\ r.out[1].immutables.timelocks.deployed_at = block_timestamp_ms
              /\ r.out[1].immutables.timelocks.deployed_at
                    + r.out[1].immutables.timelocks.dst_cancellation * 1000
                 <= ts

\* A create_dst_escrow call has just failed for its timing, after another one
\* had an escrow instantiated.
C15_Witness ==
    /\ last.op = "create_dst_escrow"
    /\ ~last.ok
    /\ last.err = "Invalid creation time: dst cancellation would start after src"
    /\ \E i \in 1..Len(transfers) : transfers[i].kind = "create_escrow"

\* The callbacks that confirm a creation, and their outcome for a scheduled
\* callback and a result of the creation.
ConfirmationCallbacks == {"on_escrow_created", "on_src_escrow_created"}
Confirmation(item, call_result) ==
    IF item.call = "on_escrow_created"
    THEN on_escrow_created(item.order_hash, item.account[1], call_result)
    ELSE on_src_escrow_created(item.order_hash, item.account[1], call_result)

\* C16: a creation-confirmation callback (of create_dst_escrow or of
\* create_src_escrow) that receives a failure removes the registry entry of
\* its order hash, so that get_escrow_address returns none afterwards, and
\* returns success = false; one that receives success leaves the registry as
\* it is, so that an entry mapped to the derived escrow account stays so, and
\* returns success = true with that account and order hash.
C16_CallbackRollback ==
    /\ \A item \in BagToSet(pending) :
          item.call \in ConfirmationCallbacks =>
             LET failed == Confirmation(item, FALSE)
                 done == Confirmation(item, TRUE)
             IN
             /\ failed.ok
             /\ failed.deployed_escrows[item.order_hash] = None
             /\ \A h \in OrderHashInputs \ {item.order_hash} :
                   failed.deployed_escrows[h] = deployed_escrows[h]
             /\ failed.ret[1].success = FALSE
             /\ done.ok
             /\ done.deployed_escrows = deployed_escrows
             /\ done.ret[1].success = TRUE
             /\ done.ret[1].escrow_account = item.account[1]
             /\ done.ret[1].order_hash = item.order_hash
    /\ (last.op \in ConfirmationCallbacks /\ ~last.ret[1].success) =>
          get_escrow_address(last.ret[1].order_hash) = None

\* A destination creation has just been reported as failed and its entry is
\* gone, while the entry of another order, reported as created, is mapped.
C16_Witness ==
    /\ last.op = "on_escrow_created"
    /\ ~last.ret[1].success
    /\ get_escrow_address(last.ret[1].order_hash) = None
    /\ \E h \in OrderHashInputs : IsSome(get_escrow_address(h))

\* The block times of the factory's calls.
FactoryTimes == { FactoryStartTime + Ms(500) * k : k \in 0..MaxFactoryTick }

\* C17: a source escrow created through the factory has stored, as
\* deployed_at, a block time at which the factory was called, no later than
\* now; and as long as src_withdrawal seconds have not passed since the
\* earliest such time, the escrow reports A1_FINALITY_LOCK and the taker's
\* withdraw is refused for the finality lock.
C17_SrcClockAnchor ==
    side = "src" =>
        /\ immutables.timelocks.deployed_at \in FactoryTimes
        /\ immutables.timelocks.deployed_at <= now
        /\ (/\ immutables.timelocks.src_withdrawal > 0
            /\ now < FactoryStartTime
                       + immutables.timelocks.src_withdrawal * Ms(1000)) =>
              /\ Src_get_current_phase = "A1_FINALITY_LOCK"
              /\ Src_withdraw_guard(immutables.taker)
                    = "Finality lock not expired"

\* The accounts the factory had created for source escrows, in order.
SrcIdentities ==
    SelectSeq(transfers, LAMBDA a : a.kind = "create_account")

\* C18: the source escrows the factory creates for one order, submitted with
\* the same order hash and Immutables at whatever block times, get one and
\* the same escrow identity.  (One order reaches the creation of a source
\* escrow account here: the one of the native asset.)
C18_SrcIdentityDeterministic ==
    \A i, j \in 1..Len(SrcIdentities) :
        SrcIdentities[i].account = SrcIdentities[j].account

\* C19: the deployment that create_src_escrow scheduled behind the allowance
\* check of a non-native token commits (registers the order hash and has the
\* escrow account created) exactly when the token contract answered with an
\* allowance of at least the order amount and the attached deposit covers the
\* safety deposit.
C19_AllowanceGate ==
    \A item \in BagToSet(pending) :
        (item.call = "src_contract_deployment"
            /\ item.immutables.token # NATIVE) =>
           \A answer \in AllowanceInputs :
              LET r == src_contract_deployment(item, answer) IN
              (r.ok /\ IsSome(r.deployed_escrows[item.order_hash]))
                 <=> (/\ IsSome(answer)
                      /\ answer[1] >= item.immutables.amount
                      /\ item.deposit >= item.immutables.safety_deposit)

\* The accounts the factory had destination escrows instantiated at, in order.
DstIdentities ==
    SelectSeq(transfers, LAMBDA a : a.kind = "create_escrow")

\* C20: no two create_dst_escrow calls derive the same escrow account (the
\* counter value in its name differs), whatever create_src_escrow calls and
\* callbacks ran in between.
C20_DstIdentityFresh ==
    \A i, j \in 1..Len(DstIdentities) :
        i # j =>
           /\ DstIdentities[i].account[1].counter
                 # DstIdentities[j].account[1].counter
           /\ DstIdentities[i].account # DstIdentities[j].account

\* C21: escrow_counter never decreases, whatever factory call or callback
\* is taken.
C21_CounterMonotonic ==
    [][escrow_counter' >= escrow_counter]_vars

\* C22: a creation-confirmation callback that receives a failure, on the
\* destination path as on the source path, removes the registry entry of its
\* order hash and takes one off the creation counter.
C22_FailureCompensation ==
    \A item \in BagToSet(pending) :
        item.call \in ConfirmationCallbacks =>
           LET failed == Confirmation(item, FALSE) IN
           /\ failed.deployed_escrows[item.order_hash] = None
           /\ failed.escrow_counter = escrow_counter - 1

(***************************************************************************)
(* Claims about the phases and the construction of an escrow               *)
(***************************************************************************)
\* The offsets of the escrow's side are non-decreasing.
OrderedOffsets ==
    IF side = "dst"
    THEN /\ immutables.timelocks.dst_withdrawal
               <= immutables.timelocks.dst_public_withdrawal
         /\ immutables.timelocks.dst_public_withdrawal
               <= immutables.timelocks.dst_cancellation
    ELSE /\ immutables.timelocks.src_withdrawal
               <= immutables.timelocks.src_public_withdrawal
         /\ immutables.timelocks.src_public_withdrawal
               <= immutables.timelocks.src_cancellation
         /\ immutables.timelocks.src_cancellation
               <= immutables.timelocks.src_public_cancellation

CurrentPhase ==
    IF side = "dst" THEN Dst_get_current_phase ELSE Src_get_current_phase

\* The place of a phase in the order of its side.
PhaseRank(p) ==
    CASE p \in {"A1_FINALITY_LOCK", "B1_FINALITY_LOCK"} -> 1
      [] p \in {"A2_RESOLVER_EXCLUSIVE", "B2_RESOLVER_EXCLUSIVE"} -> 2
      [] p \in {"A3_PUBLIC_WITHDRAWAL", "B3_PUBLIC_WITHDRAWAL"} -> 3
      [] p \in {"A3_PRIVATE_CANCELLATION", "B4_CANCELLATION"} -> 4
      [] p = "A4_PUBLIC_CANCELLATION" -> 5
      [] OTHER -> 0

C23_Buckets ==
    (OrderedOffsets /\ now >= immutables.timelocks.deployed_at) =>
       IF side = "dst"
       THEN LET p == Dst_get_current_phase IN
            /\ p \in {"B1_FINALITY_LOCK", "B2_RESOLVER_EXCLUSIVE",
                      "B3_PUBLIC_WITHDRAWAL", "B4_CANCELLATION"}
            /\ p = "B1_FINALITY_LOCK" <=> now < DstWithdrawalStart
            /\ p = "B2_RESOLVER_EXCLUSIVE"
                  <=> (DstWithdrawalStart <= now /\ now < DstPublicWithdrawalStart)
            /\ p = "B3_PUBLIC_WITHDRAWAL"
                  <=> (DstPublicWithdrawalStart <= now /\ now < DstCancellationStart)
            /\ p = "B4_CANCELLATION" <=> DstCancellationStart <= now
       ELSE LET p == Src_get_current_phase IN
            /\ p \in {"A1_FINALITY_LOCK", "A2_RESOLVER_EXCLUSIVE",
                      "A3_PUBLIC_WITHDRAWAL", "A3_PRIVATE_CANCELLATION",
                      "A4_PUBLIC_CANCELLATION"}
            /\ p = "A1_FINALITY_LOCK" <=> now < SrcWithdrawalStart
            /\ p = "A2_RESOLVER_EXCLUSIVE"
                  <=> (SrcWithdrawalStart <= now /\ now < SrcPublicWithdrawalStart)
            /\ p = "A3_PUBLIC_WITHDRAWAL"
                  <=> (SrcPublicWithdrawalStart <= now /\ now < SrcCancellationStart)
            /\ p = "A3_PRIVATE_CANCELLATION"
                  <=> (SrcCancellationStart <= now
                         /\ now < SrcPublicCancellationStart)
            /\ p = "A4_PUBLIC_CANCELLATION" <=> SrcPublicCancellationStart <= now

C23_Step ==
    OrderedOffsets => PhaseRank(CurrentPhase)' >= PhaseRank(CurrentPhase)

\* C23: with non-decreasing offsets of its side, at every time from
\* deployed_at on get_current_phase returns the one bucket whose half-open
\* interval between consecutive stage starts holds the current time (B1..B4
\* on the destination, A1, A2, A3 public withdrawal, A3 private cancellation
\* and A4 on the source), and no step takes the phase to an earlier bucket.
C23_PhasePartition ==
    []C23_Buckets /\ [][C23_Step]_vars

\* A source escrow whose public withdrawal and cancellation start together,
\* at that instant: the empty bucket is skipped.
C23_Witness ==
    /\ side = "src"
    /\ OrderedOffsets
    /\ SrcPublicWithdrawalStart = SrcCancellationStart
    /\ now = SrcCancellationStart
    /\ Src_get_current_phase = "A3_PRIVATE_CANCELLATION"

\* What EscrowSrc::init must be paid.
ExpectedInitDeposit(imm) ==
    IF imm.token = NATIVE THEN imm.amount + imm.safety_deposit
    ELSE imm.safety_deposit

\* The escrow an init returns is fresh: no flag set, no optional field
\* present, no index used, a Merkle root exactly for a Merkle hashlock.
FreshEscrow(c, imm, fac) ==
    /\ c.immutables = imm
    /\ c.factory = fac
    /\ ~c.state.is_withdrawn
    /\ ~c.state.is_cancelled
    /\ c.state.revealed_secret = None
    /\ c.state.withdrawn_at = None
    /\ c.state.cancelled_at = None
    /\ c.used_secret_indices = <<>>
    /\ IsSome(c.merkle_root) <=> StartsWith(imm.hashlock, MerklePrefix)

\* C24: init passes its assertions only when the caller is the factory
\* account passed to it and, on the source side, the attached deposit is
\* exactly amount + safety_deposit for the native asset and safety_deposit
\* otherwise; the escrow it creates has every flag false, every optional
\* field none, no used index, and a Merkle root exactly when the hashlock
\* starts with "merkle:".
C24_Init ==
    last.op = "init" =>
       /\ \A predecessor \in InitCallers, fac \in InitFactories :
          \A imm \in ImmutablesInputs :
             /\ Dst_init_guard(predecessor, fac) = "" => predecessor = fac
             /\ FreshEscrow(Dst_init(imm, fac), imm, fac)
             /\ ~Dst_init(imm, fac).state.is_funded
             /\ FreshEscrow(Src_init(imm, fac), imm, fac)
             /\ \A attached_deposit \in InitAttachedInputs(imm) :
                   Src_init_guard(predecessor, imm, fac, attached_deposit) = ""
                      => /\ predecessor = fac
                         /\ attached_deposit = ExpectedInitDeposit(imm)
       /\ factory = FactoryAccount
       /\ side = "dst" => ~state.is_funded
       /\ ~state.is_withdrawn
       /\ ~state.is_cancelled
       /\ state.revealed_secret = None
       /\ state.withdrawn_at = None
       /\ state.cancelled_at = None
       /\ used_secret_indices = <<>>
       /\ transfers = <<>>
       /\ IsSome(merkle_root) <=> StartsWith(immutables.hashlock, MerklePrefix)

\* A source escrow of a Merkle hashlock and a NEP-141 token, just initialised.
C24_Witness ==
    /\ last.op = "init"
    /\ side = "src"
    /\ immutables.token # NATIVE
    /\ IsSome(merkle_root)
    /\ ~state.is_withdrawn

\* The transfer-from calls of the principal initiated so far.
PrincipalPulls ==
    SelectSeq(transfers, LAMBDA a : a.kind = "ft_transfer_from")

\* C25: deposit_funds on a destination escrow succeeds only for the taker
\* and only while is_funded is false; on a funded escrow it fails for every
\* caller, with "Already funded" for the taker; so at most one transfer-from
\* of the principal is ever initiated for one escrow.
C25_DepositOnce ==
    side = "dst" =>
       /\ \A c \in Callers :
             LET r == Dst_deposit_funds(c) IN
             /\ r.ok => (c = immutables.taker /\ ~state.is_funded)
             /\ state.is_funded => ~r.ok
             /\ (state.is_funded /\ c = immutables.taker)
                   => r.err = "Already funded"
       /\ Len(PrincipalPulls) <= 1
       /\ (last.op = "deposit_funds" /\ last.ok) => state.is_funded

\* The taker's second deposit_funds on a NEP-141 escrow has just failed.
C25_Witness ==
    /\ side = "dst"
    /\ immutables.token # NATIVE
    /\ state.is_funded
    /\ last.op = "deposit_funds"
    /\ last.err = "Already funded"
    /\ Len(PrincipalPulls) = 1

\* C26: deposit_funds on a destination escrow of the native asset is a
\* no-op: when it succeeds it initiates no transfer and leaves EscrowState as
\* it was.
C26_NativeDepositNoOp ==
    (side = "dst" /\ immutables.token = NATIVE) =>
       \A c \in Callers :
          LET r == Dst_deposit_funds(c) IN
          r.ok => (r.out = <<>> /\ r.state = state)

\* No index occurs twice in a sequence of indices.
NoDuplicates(seq) ==
    \A i, j \in 1..Len(seq) : seq[i] = seq[j] => i = j

C27_UsedIndices ==
    /\ NoDuplicates(used_secret_indices)
    /\ IsNone(merkle_root) => used_secret_indices = <<>>

C27_Step ==
    used_secret_indices' # used_secret_indices =>
       /\ last'.op \in {"withdraw", "public_withdraw"}
       /\ last'.ok
       /\ state'.is_withdrawn
       /\ \E index \in 0..(2 * NumLeaves) :
             used_secret_indices' = Append(used_secret_indices, index)

\* C27: used_secret_indices never holds an index twice and is empty in an
\* escrow that is not in Merkle mode; it changes only by a withdraw or
\* public_withdraw that succeeds, which appends one index.
C27_UsedIndexSet ==
    []C27_UsedIndices /\ [][C27_Step]_vars

\* A Merkle-mode escrow after a public_withdraw that recorded its index.
C27_Witness ==
    /\ IsSome(merkle_root)
    /\ last.op = "public_withdraw"
    /\ last.ok
    /\ Len(used_secret_indices) = 1

(***************************************************************************)
(* Claims about validate_partial_fill (checked under PartialFillSpec)      *)
(***************************************************************************)
\* The reference of the specification, in unbounded integers.
ExpectedPartialFill(making, remaining, order, parts, validated_index) ==
    LET c == ((order - remaining + making - 1) * parts) \div order IN
    IF remaining = making THEN c + 2 = validated_index
    ELSE IF remaining # order /\ c = ((order - remaining - 1) * parts) \div order
    THEN FALSE
    ELSE c + 1 = validated_index

\* C28: for order_making_amount > 0 and
\* 0 < making_amount <= remaining_making_amount <= order_making_amount,
\* validate_partial_fill returns the value of the reference.
C28_PartialFillReference ==
    last.op = "validate_partial_fill" =>
       last.ret = Some(ExpectedPartialFill(last.args[1], last.args[2],
                                           last.args[3], last.args[4],
                                           last.args[5]))

(***************************************************************************)
(* Claims about the resolver (checked under ResolverSpec)                  *)
(***************************************************************************)
\* C29: a deploy_src or deploy_dst call by an account other than the owner
\* fails, and so does a deploy_src call with amount > order.making_amount;
\* every other deploy_src call (of an order with a positive making_amount
\* and a taker asset that is an account id) dispatches create_src_escrow with
\* a destination complement of amount
\* floor(taking_amount * amount / making_amount) and Immutables whose taker
\* is the resolver contract.  A call by another account than the owner
\* dispatches nothing.
C29_ResolverDeploy ==
    /\ (last.op \in {"deploy_src", "deploy_dst"}
          /\ last.args[1] # state.owner) => ~last.ok
    /\ (last.op = "deploy_src"
          /\ last.args[3] > last.args[2].making_amount) => ~last.ok
    /\ (last.op = "deploy_src"
          /\ last.args[1] = state.owner
          /\ last.args[3] <= last.args[2].making_amount
          /\ last.args[2].making_amount > 0
          /\ IsSome(parse(last.args[2].taker_asset))) =>
             /\ last.ok
             /\ transfers[Len(transfers)].method = "create_src_escrow"
             /\ transfers[Len(transfers)].dst_complement.amount
                   = (last.args[2].taking_amount * last.args[3])
                        \div last.args[2].making_amount
             /\ transfers[Len(transfers)].immutables.taker = ResolverAccount
    /\ \A c \in ResolverCallers \ {state.owner} :
          /\ \A order \in OrderInputs, amount \in FillAmountInputs :
             \A overflow_checks \in BOOLEAN :
                deploy_src(c, order, amount, overflow_checks).out = <<>>
          /\ \A imm \in FactoryImmutablesInputs :
                deploy_dst(c, imm, 13000, imm.safety_deposit).out = <<>>

(***************************************************************************)
(* Claims about the views of an escrow (checked under Spec)                *)
(***************************************************************************)
\* C30: on a destination escrow get_time_remaining returns the start of the
\* next phase minus the current time, a positive number, while the phase is
\* B1, B2 or B3, and none exactly when the phase is B4_CANCELLATION.
C30_TimeRemaining ==
    side = "dst" =>
       LET p == Dst_get_current_phase
           t == Dst_get_time_remaining
       IN
       /\ p = "B1_FINALITY_LOCK" => t = Some(DstWithdrawalStart - now)
       /\ p = "B2_RESOLVER_EXCLUSIVE" => t = Some(DstPublicWithdrawalStart - now)
       /\ p = "B3_PUBLIC_WITHDRAWAL" => t = Some(DstCancellationStart - now)
       /\ IsSome(t) => t[1] > 0
       /\ IsNone(t) <=> p = "B4_CANCELLATION"

\* A destination escrow one second into its exclusive phase, one second
\* before the public withdrawal.
C30_Witness ==
    /\ side = "dst"
    /\ Dst_get_current_phase = "B2_RESOLVER_EXCLUSIVE"
    /\ now > DstWithdrawalStart
    /\ Dst_get_time_remaining = Some(Ms(1000))

(***************************************************************************)
(* Claims about the custody of an escrow (checked under Spec)              *)
(***************************************************************************)
C31_Step ==
    /\ immutables' = immutables
    /\ factory' = factory
    /\ merkle_root' = merkle_root

\* C31: no step of an initialised escrow (deposit_funds, withdraw,
\* public_withdraw, cancel, rescue_funds, a later block) changes its
\* Immutables, its factory account or its Merkle root.
C31_WriteOnce ==
    [][C31_Step]_vars

\* A Merkle-mode escrow after a withdraw that succeeded, its root in place.
C31_Witness ==
    /\ last.op = "withdraw"
    /\ last.ok
    /\ state.is_withdrawn
    /\ IsSome(merkle_root)
    /\ merkle_root = extract_merkle_root(immutables.hashlock)
    /\ factory = FactoryAccount

(***************************************************************************)
(* An escrow created through the factory, then left until the rescue delay *)
(***************************************************************************)
\* The Immutables the factory hands to the account it creates, for a
\* creation accepted at block time `now`: those of create_dst_escrow, or
\* those of src_contract_deployment run on what create_src_escrow scheduled.
CreatedImmutables(sd, imm, ts, att) ==
    IF sd = "dst"
    THEN LET r == create_dst_escrow(imm, ts, att) IN
         IF r.ok THEN Some(r.out[1].immutables) ELSE None
    ELSE LET s == create_src_escrow(imm.order_hash, imm, att)
             r == src_contract_deployment(s.then[1], None)
         IN IF s.ok /\ r.ok THEN Some(r.out[1].immutables) ELSE None

\* The escrow right after the factory created it at a block time of
\* FactoryTimes: init has stored the Immutables it was given and reads their
\* deployed_at as milliseconds.
CreatedInit ==
    /\ now \in FactoryTimes
    /\ deployed_escrows = [h \in OrderHashInputs |-> None]
    /\ escrow_counter = 0
    /\ pending = EmptyBag
    /\ transfers = <<>>
    /\ last = InitCall
    /\ factory = FactoryAccount
    /\ side \in {"dst", "src"}
    /\ \E imm \in FactoryImmutablesInputs, ts \in SrcCancellationInputs :
       \E att \in AttachedInputs(imm) :
          LET created == CreatedImmutables(side, imm, ts, att)
              given == [created[1] EXCEPT !.timelocks.deployed_at = Ms(@)]
              c == IF side = "dst" THEN Dst_init(given, FactoryAccount)
                   ELSE Src_init(given, FactoryAccount)
          IN
          /\ IsSome(created)
          /\ immutables = c.immutables
          /\ state = c.state
          /\ merkle_root = c.merkle_root
          /\ used_secret_indices = c.used_secret_indices

CreatedNext ==
    \/ Tick
    \/ TickRescue
    \/ DstRescueFunds
    \/ SrcRescueFunds

CreatedSpec == CreatedInit /\ [][CreatedNext]_vars

(***************************************************************************)
(* Claims about an escrow created through the factory (CreatedSpec)        *)
(***************************************************************************)
\* C32: no rescue_funds call on an escrow the factory created succeeds
\* earlier than 30 days after the block time of its creation, which is
\* FactoryStartTime or later.
C32_RescueNotBeforeThirtyDays ==
    (last.op = "rescue_funds" /\ last.ok)
        => now >= FactoryStartTime + 2592000 * Ms(1000)

(***************************************************************************)
(* Claims about concurrent creations (checked under FactorySpec)           *)
(***************************************************************************)
\* The last call was a creation callback that confirmed order hash h as
\* created, and h is mapped to the account it confirmed.
C33_JustConfirmed(h) ==
    /\ last.op \in {"on_escrow_created", "on_src_escrow_created"}
    /\ IsSome(last.ret)
    /\ last.ret[1].success
    /\ last.ret[1].order_hash = h
    /\ deployed_escrows[h] = Some(last.ret[1].escrow_account)

C33_Step ==
    \A h \in OrderHashInputs :
        C33_JustConfirmed(h) => deployed_escrows'[h] = deployed_escrows[h]

\* C33: an order hash whose creation was just confirmed successful stays
\* mapped to the confirmed escrow: no factory call that follows (a creation
\* for the same order hash, accepted or failing, or a failure callback)
\* removes or replaces the entry.
C33_ConfirmedEntryKept == [][C33_Step]_vars

(***************************************************************************)
(* The escrow with the receipt of deposit_funds' promise                   *)
(***************************************************************************)
\* The token contract runs the ft_transfer_from that deposit_funds returned
\* and the call succeeds or fails.  deposit_funds attaches no callback to the
\* promise, so no code of the escrow runs on the result.
FtTransferFromResolved ==
    /\ side = "dst"
    /\ last.op = "deposit_funds" /\ last.ok
    /\ immutables.token # NATIVE
    /\ \E result \in BOOLEAN :
          last' = [op |-> "ft_transfer_from", ok |-> result,
                   err |-> IF result THEN "" ELSE "ft_transfer_from failed"]
    /\ UNCHANGED <<escrow_vars, now, transfers, factory_vars>>
\* The first promise of a settling call (transfer_funds_to_maker or
\* transfer_funds_to_taker) is run by the receiver or the token contract and
\* succeeds or fails.
PrincipalTransferResolved ==
    /\ last.op \in {"withdraw", "public_withdraw", "cancel"} /\ last.ok
    /\ \E result \in BOOLEAN :
          last' = [op |-> "principal_transfer", ok |-> result,
                   err |-> IF result THEN "" ELSE "principal transfer failed"]
    /\ UNCHANGED <<escrow_vars, now, transfers, factory_vars>>

\* The promise chained with .then(self.transfer_safety_deposit()): a plain
\* transfer action, run once the first promise has resolved; it reads no
\* promise result.  `after` keeps the result of the first promise.
SafetyDepositTransferred ==
    /\ last.op = "principal_transfer"
    /\ last' = [op |-> "safety_deposit_transfer", ok |-> TRUE, err |-> "",
                after |-> last.ok]
    /\ UNCHANGED <<escrow_vars, now, transfers, factory_vars>>

CustodyNext ==
    \/ Next
    \/ FtTransferFromResolved
    \/ PrincipalTransferResolved
    \/ SafetyDepositTransferred

CustodySpec == Init /\ [][CustodyNext]_vars

(***************************************************************************)
(* Claims about custody on deposit (checked under CustodySpec)             *)
(***************************************************************************)
\* C34: on a destination escrow of a NEP-141 token, when the transfer-from
\* that deposit_funds started has failed, the escrow is not marked funded.
C34_FundedReflectsCustody ==
    (side = "dst" /\ last.op = "ft_transfer_from" /\ ~last.ok)
        => ~state.is_funded

\* C35: the safety-deposit transfer of withdraw, public_withdraw and cancel
\* comes after the principal transfer and takes effect only if the principal
\* transfer succeeded.
C35_SafetyDepositOnlyAfterPrincipal ==
    (last.op = "safety_deposit_transfer" /\ last.ok) => last.after

(***************************************************************************)
(* Claims about what one escrow pays out (checked under Spec)              *)
(***************************************************************************)
\* The transfers of the principal and of the safety deposit issued so far by
\* withdraw, public_withdraw and cancel.
PrincipalTransfers ==
    SelectSeq(transfers,
              LAMBDA a : a \in {Principal(immutables.maker),
                                Principal(immutables.taker)})
SafetyDepositTransfers ==
    SelectSeq(transfers, LAMBDA a : \E c \in Callers : a = SafetyDeposit(c))

\* C36: whatever sequence of withdraw, public_withdraw and cancel calls was
\* made, one escrow has issued the transfer of the principal at most once
\* and the transfer of the safety deposit at most once.
C36_PaysAtMostOnce ==
    /\ Len(PrincipalTransfers) <= 1
    /\ Len(SafetyDepositTransfers) <= 1
    /\ Len(PrincipalTransfers) = Len(SafetyDepositTransfers)
    /\ (Len(PrincipalTransfers) = 1)
          <=> (state.is_withdrawn \/ state.is_cancelled)

\* A settled escrow on which a further settling call was refused.
C36_Witness ==
    /\ last.op \in {"withdraw", "public_withdraw", "cancel"}
    /\ ~last.ok
    /\ last.err \in {"Already withdrawn", "Already cancelled"}
    /\ Len(PrincipalTransfers) = 1
    /\ Len(SafetyDepositTransfers) = 1

C37_Inv ==
    /\ (side = "dst" /\ (state.is_withdrawn \/ state.is_cancelled))
          => state.is_funded
    /\ IsSome(state.revealed_secret) <=> state.is_withdrawn
    /\ IsSome(state.withdrawn_at) <=> state.is_withdrawn
    /\ IsSome(state.cancelled_at) <=> state.is_cancelled

C37_Step ==
    IsSome(state.revealed_secret)
        => state'.revealed_secret = state.revealed_secret

\* C37: on a destination escrow is_withdrawn or is_cancelled implies
\* is_funded; on both sides revealed_secret and withdrawn_at are set exactly
\* when is_withdrawn is, cancelled_at exactly when is_cancelled is, and a
\* revealed_secret that is set never changes.
C37_StateConsistent == [](C37_Inv) /\ [][C37_Step]_vars

\* A withdrawn destination escrow on which a further public_withdraw was refused.
C37_Witness ==
    /\ state.is_withdrawn
    /\ side = "dst"
    /\ IsSome(state.revealed_secret)
    /\ last.op = "public_withdraw" /\ ~last.ok

\* C38: a destination escrow that is neither withdrawn nor cancelled can be
\* cancelled by the taker at every block time at or after the start of the
\* cancellation stage, whether or not deposit_funds was ever called on it.
C38_TakerCanAlwaysCancel ==
    (/\ side = "dst"
     /\ ~state.is_withdrawn /\ ~state.is_cancelled
     /\ now >= DstCancellationStart)
        => Dst_cancel(immutables.taker).ok

(***************************************************************************)
(* EscrowFactory::supports_multiple_fills and                              *)
(* EscrowDst::supports_partial_fills                                       *)
(***************************************************************************)
\* Hashlocks are taken here at their full length: the factory reads
\* hashlock.len().
supports_multiple_fills(hashlock) ==
    StartsWith(hashlock, MerklePrefix) \/ Len(hashlock) > 64

supports_partial_fills == IsSome(merkle_root)

\* n times the character c.
Repeat(c, n) == [i \in 1..n |-> c]

\* Hashlocks around 64 characters, with and without a prefix: "merkle:",
\* the "0x" of a hex literal, and a prefix in another case.
HashlockPrefixes ==
    { <<>>, MerklePrefix, <<"0","x">>, <<"M","e","r","k","l","e",":">> }
HashlockBodyLengths == {0, 57, 58, 62, 63, 64, 65}
LongHashlockInputs ==
    { p \o Repeat(c, n) :
        p \in HashlockPrefixes, c \in {"0", "a"}, n \in HashlockBodyLengths }

\* A destination escrow initialised with one of these hashlocks.
HashlockInit ==
    \E h \in LongHashlockInputs :
        LET imm == [order_hash |-> "0xorder", hashlock |-> h, maker |-> Maker,
                    taker |-> Taker, token |-> "near", amount |-> 1000,
                    safety_deposit |-> 50, timelocks |-> OrderedTimelocks]
        IN
        /\ Dst_init_guard(FactoryAccount, FactoryAccount) = ""
        /\ Construct("dst", Dst_init(imm, FactoryAccount))

\* The two views, asked about the hashlock of the escrow.
SupportsMultipleFills ==
    /\ last' = [op |-> "supports_multiple_fills", ok |-> TRUE, err |-> "",
                ret |-> supports_multiple_fills(immutables.hashlock)]
    /\ UNCHANGED <<escrow_vars, now, transfers, factory_vars>>

SupportsPartialFills ==
    /\ last' = [op |-> "supports_partial_fills", ok |-> TRUE, err |-> "",
                ret |-> supports_partial_fills]
    /\ UNCHANGED <<escrow_vars, now, transfers, factory_vars>>

HashlockNext ==
    \/ SupportsMultipleFills
    \/ SupportsPartialFills

HashlockSpec == HashlockInit /\ [][HashlockNext]_vars

\* C39: supports_multiple_fills(hashlock) of the factory is true exactly
\* when the escrow initialised with that hashlock answers true to
\* supports_partial_fills.
C39_ViewsAgree ==
    (last.op = "supports_partial_fills")
        => (last.ret <=> supports_multiple_fills(immutables.hashlock))

(***************************************************************************)
(* Successive fills of one order, each validated by validate_partial_fill  *)
(***************************************************************************)
\* An order of order_making_amount in parts_amount parts, nothing filled.
\* `accepted` is the index of the last fill accepted, `prev` the one of the
\* accepted fill before it.
FillsInit ==
    /\ \E o \in 1..MaxAmount, p \in 0..(U32 - 1) :
          last = [op |-> "none", order_making_amount |-> o,
                  parts_amount |-> p, remaining_making_amount |-> o,
                  accepted |-> None, prev |-> None, ret |-> None]
    /\ side = "none"
    /\ immutables = None
    /\ factory = None
    /\ state = None
    /\ merkle_root = None
    /\ used_secret_indices = <<>>
    /\ now = 0
    /\ transfers = <<>>
    /\ deployed_escrows = <<>>
    /\ escrow_counter = 0
    /\ pending = EmptyBag

\* One fill of making_amount out of what remains, presented with
\* validated_index: accepted, it is taken off the remainder; refused, the
\* order is as before.
Fill ==
    /\ last.remaining_making_amount > 0
    /\ \E making_amount \in 1..last.remaining_making_amount,
          validated_index \in 0..(U32 - 1) :
          LET ret == validate_partial_fill(making_amount,
                                           last.remaining_making_amount,
                                           last.order_making_amount,
                                           last.parts_amount, validated_index)
          IN
          last' = IF ret
                  THEN [last EXCEPT
                          !.op = "validate_partial_fill",
                          !.remaining_making_amount = @ - making_amount,
                          !.accepted = Some(validated_index),
                          !.prev = last.accepted,
                          !.ret = Some(TRUE)]
                  ELSE [last EXCEPT !.op = "validate_partial_fill",
                                    !.ret = Some(FALSE)]
    /\ UNCHANGED <<escrow_vars, now, transfers, factory_vars>>

FillsNext == Fill

FillsSpec == FillsInit /\ [][FillsNext]_vars

\* C40: over the successive fills of one order the index accepted for a fill
\* is greater than the index accepted for the fill before it, and every
\* accepted index lies in 1..parts_amount+1.
C40_IndicesIncrease ==
    (last.parts_amount >= 1 /\ IsSome(last.accepted)) =>
        /\ last.accepted[1] \in 1..(last.parts_amount + 1)
        /\ IsSome(last.prev) => last.prev[1] < last.accepted[1]

====
